---- MODULE Spec2Model ----
(***************************************************************************)
(* Model of minecraft_terminal.py: the RCON session (MinecraftRCON), the   *)
(* log tailer (LogWatcher), the Flask request handlers and the main        *)
(* lifecycle.  Threads are actors: actor 0 is the main thread, actors      *)
(* 1..NumWorkers are Flask request threads (app.run serves threaded).      *)
(* The mcrcon library, the network and the filesystem are the environment: *)
(* every call into them has a nondeterministic outcome.                    *)
(***************************************************************************)
EXTENDS Integers, Sequences, FiniteSets, TLC

VARIABLES
    rcon_connected,     \* global rcon_connected
    rcon,               \* MinecraftRCON.rcon: 0 is None, else the MCRcon object
    sock,               \* per MCRcon object: "unborn", "new", "open", "closed"
    established,        \* the MCRcon object of the last connect() that returned
                        \* True; 0 when there was none
    pc,                 \* per actor: where the thread is
    top,                \* per actor: "main", "http" or "test" (who runs the thread)
    inCmd,              \* per actor: inside MinecraftRCON.command
    cmd,                \* per actor: argument of the running command()
    hnd,                \* per actor: MCRcon object of the send in flight
    first,              \* per actor: outcome of the primary send of this call
    second,             \* per actor: outcome of the retry of this call
    cres,               \* per actor: what connect() returned in this call
    caught,             \* per actor: the exception the except clause of connect()
                        \* is handling
    sends,              \* per actor: sends of cmd made by this call
    ndisc,              \* per actor: disconnect() calls made by this call
    nconn,              \* per actor: connect() calls made by this call
    result,             \* per actor: what command() returned
    raised,             \* per actor: an exception left the last session call
    req,                \* per worker: the request being served (or last served)
    resp,               \* per worker: the response to it
    served,             \* number of requests accepted so far
    lastOp,             \* test driver: the last two completed session calls
    snap,               \* test driver: session state after the call before the last
    webhook,            \* messages handed to send_webhook_message by the last step
    logfile,            \* content of the file at LOG_FILE_PATH
    fileExists,         \* whether LOG_FILE_PATH exists
    last_log_position,  \* global last_log_position
    observer,           \* "none", "running", "stopped"
    wpc,                \* watcher thread: "idle", "sized" (at line 247) or
                        \* "forward" (in the loop of lines 260-267)
    current_size,       \* local current_size of process_new_log_entries
    detected,           \* the last notification saw a size below the position
    failed,             \* the last notification ended in the except clause (line 276)
    appends,            \* number of writes the game server made to the log
    rotated,            \* the log was truncated or replaced since startup
    shrunk,             \* the log was truncated, replaced, removed or created anew
                        \* since a notification (or the watcher's start) last read
                        \* its size
    history,            \* how many leading bytes of the file were in it when the
                        \* watcher was started
    batches,            \* the watcher's last read: the bytes [from, to) it read,
                        \* the size it had observed, the highest byte read by
                        \* the reads before it, its text (new_content) and the
                        \* messages its loop has handed over so far
    ADMIN_ROLE_ID,      \* discord_integration.py: the configured admin role
    ipc,                \* front end: where the running slash command handler is
    interaction,        \* front end: the invocation being handled
    deferred,           \* front end: interaction.response.defer() was called
    sent,               \* front end: the messages sent to the interaction
    posted,             \* front end: the HTTP requests made for the interaction
    api,                \* front end: the outcome of the HTTP request
    invocations         \* front end: number of slash commands invoked so far

sessionVars == <<rcon_connected, rcon, sock>>
callVars == <<inCmd, cmd, hnd, first, second, cres, caught, sends, ndisc, nconn, result, raised>>
httpVars == <<req, resp, served>>
testVars == <<lastOp, snap>>
fileVars == <<logfile, fileExists, appends, rotated, shrunk, history>>
tailVars == <<last_log_position, observer, wpc, current_size, detected, failed, batches>>
chatVars == <<ADMIN_ROLE_ID, ipc, interaction, deferred, sent, posted, api, invocations>>
serverVars == <<sessionVars, established, pc, top, callVars, httpVars, testVars, webhook,
                fileVars, tailVars>>
vars == <<rcon_connected, rcon, sock, established, pc, top, inCmd, cmd, hnd, first, second, cres,
          caught,
          sends, ndisc, nconn, result, raised, req, resp, served, lastOp, snap,
          webhook, logfile, fileExists, last_log_position, observer, wpc,
          current_size, detected, failed, appends, rotated, shrunk, history, batches,
          ADMIN_ROLE_ID, ipc, interaction, deferred, sent, posted, api, invocations>>

(***************************************************************************)
(* Bounds                                                                  *)
(***************************************************************************)
NumWorkers == 2
MaxHandles == 3
MaxRequests == 2

Main == 0
Workers == 1..NumWorkers
Actors == 0..NumWorkers
Handles == 1..MaxHandles

NoneVal == "<None>"

(***************************************************************************)
(* Configuration                                                           *)
(***************************************************************************)
SECRET_TOKEN == "s3cret"
LOG_FILE_PATH == "/srv/mc/logs/latest.log"
Tokens == {NoneVal, SECRET_TOKEN, "wrong"}
\* the value of the "command" key of a request body; "" is {"command": ""}.
\* The game server answers "say hi" with an empty response and "" with a text.
Commands == {"say hi", ""}

(***************************************************************************)
(* Environment: outcomes of the calls into mcrcon                          *)
(***************************************************************************)
CtorOutcomes == {"ok", "other"}
OpenOutcomes == {"ok", "refused", "other"}
SendOutcomes == {"ok", "reset", "other"}
CloseOutcomes == {"ok", "other"}

\* What the game server answers to a command sent on MCRcon object h.
Reply(c, h) == IF c = "say hi" THEN "" ELSE c \o " -> reply on #" \o ToString(h)

\* str(e) of the exception of each outcome.
ErrText(exc) ==
    CASE exc = "reset" -> "[Errno 104] Connection reset by peer"
      [] exc = "refused" -> "[Errno 111] Connection refused"
      [] OTHER -> "timed out"

NOT_CONNECTED == "Not connected to Minecraft server"
RECONNECT_FAILED == "Error: Connection lost and reconnection failed"
NO_RESPONSE == "Command executed (no response)"
ErrorResult(exc) == "Error: " \o ErrText(exc)

\* The handle an unbounded run would allocate next; 0 when the bound is reached.
NewHandleOf(sk) ==
    IF \E h \in Handles : sk[h] = "unborn"
    THEN CHOOSE h \in Handles : sk[h] = "unborn" /\ \A g \in Handles : g < h => sk[g] # "unborn"
    ELSE 0
NewHandle == NewHandleOf(sock)


(***************************************************************************)
(* Messages handed to send_webhook_message (the emoji prefixes of the      *)
(* source are left out).                                                   *)
(***************************************************************************)
MSG_CONNECTED == "Connected to Minecraft server RCON"
MSG_REFUSED == "RCON connection refused. Is the Minecraft server running?"
MSG_ONLINE == "Minecraft Server Terminal is now online"
MSG_SHUTDOWN == "Minecraft Server Terminal is shutting down"
MSG_NO_FILE == "Log file not found: " \o LOG_FILE_PATH
ConnErrorMsg(exc) == "RCON connection error: " \o ErrText(exc)

\* send_webhook_message(m) is the only call of the step; no call in the step
Said(m) == <<m>>
Silent == webhook' = <<>>

(***************************************************************************)
(* Returning from the session's methods.  A thread is the main thread      *)
(* (startup connect, shutdown disconnect), a request thread inside         *)
(* command(), or a test driver calling the methods one after another.      *)
(***************************************************************************)
\* return of MinecraftRCON.command with value res
CmdExit(a, res) ==
    /\ result' = [result EXCEPT ![a] = res]
    /\ inCmd' = [inCmd EXCEPT ![a] = FALSE]
    /\ pc' = [pc EXCEPT ![a] = IF top[a] = "http" THEN "respond" ELSE "t_ret"]

\* an exception leaves the session call of actor a
Propagate(a) ==
    /\ raised' = [raised EXCEPT ![a] = TRUE]
    /\ inCmd' = [inCmd EXCEPT ![a] = FALSE]
    /\ pc' = [pc EXCEPT ![a] = IF top[a] = "http" THEN "respond"
                                ELSE IF top[a] = "test" THEN "t_ret" ELSE "crashed"]

\* return of MinecraftRCON.connect with value r ("ok" is True, "failed" is False);
\* inside command() this is line 178, `if self.connect():`
ConnectExit(a, r) ==
    /\ cres' = [cres EXCEPT ![a] = r]
    /\ raised' = raised
    /\ IF inCmd[a]
       THEN IF r = "ok"
            THEN /\ pc' = [pc EXCEPT ![a] = "retry_send"]
                 /\ UNCHANGED <<result, inCmd>>
            ELSE CmdExit(a, RECONNECT_FAILED)
       ELSE /\ pc' = [pc EXCEPT ![a] = IF top[a] = "main" THEN "start_watch" ELSE "t_ret"]
            /\ UNCHANGED <<result, inCmd>>

\* return of MinecraftRCON.disconnect; inside command() the next statement is
\* line 178, the call of connect()
DiscExit(a) ==
    /\ pc' = [pc EXCEPT ![a] = IF inCmd[a] THEN "c_new"
                                ELSE IF top[a] = "main" THEN "stop_watch" ELSE "t_ret"]
    /\ UNCHANGED <<inCmd, raised>>

(***************************************************************************)
(* MinecraftRCON.connect                                                   *)
(***************************************************************************)
\* which except clause of connect() takes an exception: "refused" (line 114),
\* "generic" (line 124)
ConnectHandler(exc) == IF exc = "refused" THEN "refused" ELSE "generic"

\* an exception raised inside the try block of connect(): control goes to the
\* except clause that takes it
ConnectRaise(a, exc) ==
    /\ caught' = [caught EXCEPT ![a] = exc]
    /\ pc' = [pc EXCEPT ![a] = "c_except"]

\* a variant of the except clauses that leaves rcon_connected as it is
ConnectFailKeepsFlag(a, exc) ==
    /\ rcon_connected' = rcon_connected
    /\ pc' = [pc EXCEPT ![a] = "c_failmsg"]

\* lines 115, 125: the first statement of the except clauses
ConnectFail(a, exc) ==
    /\ rcon_connected' = FALSE
    /\ pc' = [pc EXCEPT ![a] = "c_failmsg"]

\* line 100: self.rcon = MCRcon(host, password, port)
ConnNew(a) ==
    /\ pc[a] = "c_new"
    /\ nconn' = [nconn EXCEPT ![a] = @ + 1]
    /\ \E o \in CtorOutcomes :
        IF o = "ok"
        THEN /\ NewHandle # 0
             /\ rcon' = NewHandle
             /\ sock' = [sock EXCEPT ![NewHandle] = "new"]
             /\ pc' = [pc EXCEPT ![a] = "c_open"]
             /\ UNCHANGED caught
        ELSE /\ ConnectRaise(a, o)
             /\ UNCHANGED <<rcon, sock>>
    /\ Silent
    /\ UNCHANGED <<rcon_connected, top, chatVars, established, inCmd, cmd, hnd, first, second,
                   cres, sends, ndisc, result, raised, httpVars, testVars, fileVars,
                   tailVars>>

\* line 103: self.rcon.connect()
ConnOpen(a) ==
    /\ pc[a] = "c_open"
    /\ \E o \in OpenOutcomes :
        IF o = "ok"
        THEN /\ sock' = [sock EXCEPT ![rcon] = "open"]
             /\ pc' = [pc EXCEPT ![a] = "c_probe"]
             /\ UNCHANGED caught
        ELSE /\ ConnectRaise(a, o)
             /\ UNCHANGED sock
    /\ Silent
    /\ UNCHANGED <<rcon_connected, rcon, top, chatVars, established, inCmd, cmd, hnd, first,
                   second, cres, sends, ndisc, nconn, result, raised, httpVars, testVars,
                   fileVars, tailVars>>

\* line 107, first half: self.rcon.command("list") writes the request packet
ConnProbe(a) ==
    /\ pc[a] = "c_probe"
    /\ hnd' = [hnd EXCEPT ![a] = rcon]
    /\ \E o \in SendOutcomes :
        /\ o \in {"ok", "reset"} => sock[rcon] = "open"
        /\ IF o = "ok"
           THEN /\ pc' = [pc EXCEPT ![a] = "c_probe_recv"]
                /\ UNCHANGED caught
           ELSE ConnectRaise(a, o)
    /\ Silent
    /\ UNCHANGED <<sessionVars, top, chatVars, established, inCmd, cmd, first, second, cres,
                   sends, ndisc, nconn, result, raised, httpVars, testVars, fileVars,
                   tailVars>>

\* line 107, second half: self.rcon.command("list") reads the response packet
\* from the object the request was written to
ConnProbeRecv(a) ==
    /\ pc[a] = "c_probe_recv"
    /\ \E o \in SendOutcomes :
        /\ o \in {"ok", "reset"} => sock[hnd[a]] = "open"
        /\ IF o = "ok"
           THEN /\ pc' = [pc EXCEPT ![a] = "c_flag"]
                /\ UNCHANGED caught
           ELSE ConnectRaise(a, o)
    /\ Silent
    /\ UNCHANGED <<sessionVars, top, chatVars, established, inCmd, cmd, hnd, first, second,
                   cres, sends, ndisc, nconn, result, raised, httpVars, testVars, fileVars,
                   tailVars>>

\* line 110: rcon_connected = True
ConnFlag(a) ==
    /\ pc[a] = "c_flag"
    /\ rcon_connected' = TRUE
    /\ established' = hnd[a]
    /\ pc' = [pc EXCEPT ![a] = "c_said"]
    /\ Silent
    /\ UNCHANGED <<rcon, sock, top, chatVars, callVars, httpVars, testVars, fileVars, tailVars>>

\* lines 112-113: announce the connection; return True
ConnSaid(a) ==
    /\ pc[a] = "c_said"
    /\ webhook' = Said(MSG_CONNECTED)
    /\ ConnectExit(a, "ok")
    /\ UNCHANGED <<sessionVars, top, chatVars, established, cmd, hnd, first, second, caught,
                   sends, ndisc, nconn, httpVars, testVars, fileVars, tailVars>>

\* lines 114-115, 124-125: the except clause writes the flag
ConnExcept(a) ==
    /\ pc[a] = "c_except"
    /\ ConnectFail(a, caught[a])
    /\ Silent
    /\ UNCHANGED <<rcon, sock, top, chatVars, established, callVars, httpVars, testVars,
                   fileVars, tailVars>>

\* lines 120-123, 143-144: the except clause announces the failure; return False
ConnFailMsg(a) ==
    /\ pc[a] = "c_failmsg"
    /\ webhook' = Said(IF ConnectHandler(caught[a]) = "refused"
                       THEN MSG_REFUSED ELSE ConnErrorMsg(caught[a]))
    /\ ConnectExit(a, "failed")
    /\ UNCHANGED <<sessionVars, top, chatVars, established, cmd, hnd, first, second, caught,
                   sends, ndisc, nconn, httpVars, testVars, fileVars, tailVars>>

(***************************************************************************)
(* MinecraftRCON.disconnect                                                *)
(***************************************************************************)
\* whether the except clause of disconnect() (line 157) takes an exception
DisconnectCatches(exc) == TRUE

\* line 151: if self.rcon:
DiscCheck(a) ==
    /\ pc[a] = "d_check"
    /\ ndisc' = [ndisc EXCEPT ![a] = @ + 1]
    /\ IF rcon # 0
       THEN /\ pc' = [pc EXCEPT ![a] = "d_close"]
            /\ UNCHANGED <<inCmd, raised>>
       ELSE DiscExit(a)
    /\ Silent /\ UNCHANGED <<sessionVars, top, chatVars, established, cmd, hnd, first, second, cres, caught, sends,
                             nconn, result, httpVars, testVars, fileVars, tailVars>>

\* line 152: self.rcon.disconnect(); closing a socket may raise, an object
\* that holds no socket is left as it is
DiscClose(a) ==
    /\ pc[a] = "d_close"
    /\ \E o \in CloseOutcomes :
        /\ o # "ok" => sock[rcon] = "open"
        /\ IF o = "ok"
           THEN /\ sock' = [sock EXCEPT ![rcon] = IF @ = "open" THEN "closed" ELSE @]
                /\ pc' = [pc EXCEPT ![a] = "d_flag"]
                /\ UNCHANGED <<inCmd, raised>>
           ELSE /\ sock' = sock
                /\ IF DisconnectCatches(o)
                   THEN DiscExit(a)
                   ELSE Propagate(a)
    /\ Silent /\ UNCHANGED <<rcon_connected, rcon, top, chatVars, established, cmd, hnd, first, second, cres, caught,
                             sends, ndisc, nconn, result, httpVars, testVars, fileVars,
                             tailVars>>

\* line 153: rcon_connected = False
DiscFlag(a) ==
    /\ pc[a] = "d_flag"
    /\ rcon_connected' = FALSE
    /\ DiscExit(a)
    /\ Silent /\ UNCHANGED <<rcon, sock, top, chatVars, established, cmd, hnd, first, second, cres, caught, sends,
                             ndisc, nconn, result, httpVars, testVars, fileVars,
                             tailVars>>


(***************************************************************************)
(* MinecraftRCON.command                                                   *)
(***************************************************************************)
\* a variant of the outer try without the `except ConnectionResetError` clause
CommandHandlerNoRecover(exc) == "error"

\* a variant of the outer try whose recovery clause takes every exception
CommandHandlerRecoverAll(exc) == "recover"

\* which except clause of the outer try (lines 163-190) takes an exception of
\* the primary attempt: "recover" is `except ConnectionResetError` (line 174),
\* "error" is `except Exception` (line 188)
CommandHandler(exc) == IF exc = "reset" THEN "recover" ELSE "error"

\* a variant of the inner try that catches ConnectionResetError only
RetryCatchesResetOnly(exc) == exc = "reset"

\* whether the inner except clause (line 184) takes an exception of the retry
RetryCatches(exc) == TRUE

\* a variant of the check that looks at the handle instead of the flag
NotConnectedByHandle == rcon = 0

\* line 164: the value of `not rcon_connected` that command() acts on
NotConnected == ~rcon_connected

\* the primary attempt raised exc
PrimaryFailed(a, exc) ==
    /\ first' = [first EXCEPT ![a] = exc]
    /\ IF CommandHandler(exc) = "recover"
       THEN /\ pc' = [pc EXCEPT ![a] = "d_check"]
            /\ UNCHANGED <<result, inCmd, raised>>
       ELSE IF CommandHandler(exc) = "error"
       THEN /\ CmdExit(a, ErrorResult(exc))
            /\ raised' = raised
       ELSE /\ Propagate(a)
            /\ result' = result

\* a variant of the retry that starts the recovery again after a reset
RetryFailedRecovers(a, exc) ==
    /\ second' = [second EXCEPT ![a] = exc]
    /\ IF exc = "reset"
       THEN /\ pc' = [pc EXCEPT ![a] = "d_check"]
            /\ UNCHANGED <<result, inCmd, raised>>
       ELSE /\ CmdExit(a, ErrorResult(exc))
            /\ raised' = raised

\* the retry raised exc: lines 184-186
RetryFailed(a, exc) ==
    /\ second' = [second EXCEPT ![a] = exc]
    /\ IF RetryCatches(exc)
       THEN /\ CmdExit(a, ErrorResult(exc))
            /\ raised' = raised
       ELSE /\ Propagate(a)
            /\ result' = result

\* lines 164-168: if not rcon_connected: return "Not connected ..."
CmdCheck(a) ==
    /\ pc[a] = "cmd_check"
    /\ IF NotConnected
       THEN CmdExit(a, NOT_CONNECTED)
       ELSE /\ pc' = [pc EXCEPT ![a] = "cmd_send"]
            /\ UNCHANGED <<result, inCmd>>
    /\ Silent /\ UNCHANGED <<sessionVars, top, chatVars, established, cmd, hnd, first, second, cres, caught, sends,
                             ndisc, nconn, raised, httpVars, testVars, fileVars,
                             tailVars>>

\* line 171, first half: self.rcon.command(cmd) writes the request packet
CmdSend(a) ==
    /\ pc[a] = "cmd_send"
    /\ sends' = [sends EXCEPT ![a] = @ + 1]
    /\ hnd' = [hnd EXCEPT ![a] = rcon]
    /\ \E o \in SendOutcomes :
        /\ o \in {"ok", "reset"} => (rcon # 0 /\ sock[rcon] = "open")
        /\ IF o = "ok"
           THEN /\ pc' = [pc EXCEPT ![a] = "cmd_recv"]
                /\ UNCHANGED <<first, second, result, inCmd, raised>>
           ELSE PrimaryFailed(a, o)
    /\ Silent /\ UNCHANGED <<sessionVars, top, chatVars, established, cmd, second, cres, caught, ndisc, nconn, httpVars,
                             testVars, fileVars, tailVars>>

\* line 171, second half: self.rcon.command(cmd) reads the response packet
CmdRecv(a) ==
    /\ pc[a] = "cmd_recv"
    /\ \E o \in SendOutcomes :
        /\ o \in {"ok", "reset"} => sock[hnd[a]] = "open"
        /\ IF o = "ok"
           THEN /\ first' = [first EXCEPT ![a] = "ok"]
                /\ CmdExit(a, Reply(cmd[a], hnd[a]))
                /\ raised' = raised
           ELSE PrimaryFailed(a, o)
    /\ Silent /\ UNCHANGED <<sessionVars, top, chatVars, established, cmd, hnd, second, cres, caught, sends, ndisc,
                             nconn, httpVars, testVars, fileVars, tailVars>>

\* line 181, first half: the retry writes the request packet
RetrySend(a) ==
    /\ pc[a] = "retry_send"
    /\ sends' = [sends EXCEPT ![a] = @ + 1]
    /\ hnd' = [hnd EXCEPT ![a] = rcon]
    /\ \E o \in SendOutcomes :
        /\ o \in {"ok", "reset"} => sock[rcon] = "open"
        /\ IF o = "ok"
           THEN /\ pc' = [pc EXCEPT ![a] = "retry_recv"]
                /\ UNCHANGED <<second, result, inCmd, raised>>
           ELSE RetryFailed(a, o)
    /\ Silent /\ UNCHANGED <<sessionVars, top, chatVars, established, cmd, first, cres, caught, ndisc, nconn, httpVars,
                             testVars, fileVars, tailVars>>

\* line 181, second half: the retry reads the response packet
RetryRecv(a) ==
    /\ pc[a] = "retry_recv"
    /\ \E o \in SendOutcomes :
        /\ o \in {"ok", "reset"} => sock[hnd[a]] = "open"
        /\ IF o = "ok"
           THEN /\ second' = [second EXCEPT ![a] = "ok"]
                /\ CmdExit(a, Reply(cmd[a], hnd[a]))
                /\ raised' = raised
           ELSE RetryFailed(a, o)
    /\ Silent /\ UNCHANGED <<sessionVars, top, chatVars, established, cmd, hnd, first, cres, caught, sends, ndisc,
                             nconn, httpVars, testVars, fileVars, tailVars>>

\* the per-call bookkeeping at the entry of a session call: in is whether the
\* call is command(c)
EnterCall(a, in, c) ==
    /\ inCmd' = [inCmd EXCEPT ![a] = in]
    /\ cmd' = [cmd EXCEPT ![a] = c]
    /\ hnd' = [hnd EXCEPT ![a] = 0]
    /\ first' = [first EXCEPT ![a] = "none"]
    /\ second' = [second EXCEPT ![a] = "none"]
    /\ cres' = [cres EXCEPT ![a] = "none"]
    /\ caught' = [caught EXCEPT ![a] = "none"]
    /\ sends' = [sends EXCEPT ![a] = 0]
    /\ ndisc' = [ndisc EXCEPT ![a] = 0]
    /\ nconn' = [nconn EXCEPT ![a] = 0]
    /\ result' = [result EXCEPT ![a] = NoneVal]
    /\ raised' = [raised EXCEPT ![a] = FALSE]


(***************************************************************************)
(* Text helpers (Python str operations used by the handlers)               *)
(***************************************************************************)
Char(s, i) == SubSeq(s, i, i)
IsDigit(c) == \E i \in 1..10 : Char("0123456789", i) = c
DigitValue(c) == (CHOOSE i \in 1..10 : Char("0123456789", i) = c) - 1

\* U+000B (vertical tab), which has no escape in a string literal
VT == ""

\* the white space int() ignores around the literal: the ASCII white space
\* (space, \t, \n, \v, \f, \r) and, of Latin-1, U+0085 and U+00A0.  The
\* separators U+001C to U+001F are not among it.
IsSpace(c) == c \in {" ", "\t", "\n", "\r", "\f", VT, "", " "}

RECURSIVE Strip(_)
Strip(s) ==
    IF s # "" /\ IsSpace(Head(s)) THEN Strip(Tail(s))
    ELSE IF s # "" /\ IsSpace(Char(s, Len(s))) THEN Strip(SubSeq(s, 1, Len(s) - 1))
    ELSE s

\* the digits of a literal, most significant first; an underscore between two
\* digits has no value
RECURSIVE ParseDigits(_, _)
ParseDigits(s, acc) ==
    IF s = "" THEN acc
    ELSE IF Head(s) = "_" THEN ParseDigits(Tail(s), acc)
    ELSE ParseDigits(Tail(s), 10 * acc + DigitValue(Head(s)))

\* the most digits int() converts (sys.int_info.default_max_str_digits); the
\* sign, the underscores and the white space around are not counted, leading
\* zeros are
MAX_STR_DIGITS == 4300

\* int(text) of a str: white space around the literal is dropped; the literal
\* is an optional sign and decimal digits, with single underscores allowed
\* between digits, and has at most MAX_STR_DIGITS digits.  IsIntLiteral is
\* FALSE where int() raises ValueError.
IsIntLiteral(s) ==
    LET t == Strip(s)
        body == IF t # "" /\ Head(t) \in {"-", "+"} THEN Tail(t) ELSE t
    IN /\ body # ""
       /\ \A i \in 1..Len(body) :
            \/ IsDigit(Char(body, i))
            \/ /\ Char(body, i) = "_"
               /\ 1 < i /\ i < Len(body)
               /\ IsDigit(Char(body, i - 1)) /\ IsDigit(Char(body, i + 1))
       /\ Cardinality({i \in 1..Len(body) : IsDigit(Char(body, i))}) <= MAX_STR_DIGITS
ParseInt(s) ==
    LET t == Strip(s)
    IN IF t # "" /\ Head(t) = "-" THEN 0 - ParseDigits(Tail(t), 0)
       ELSE IF t # "" /\ Head(t) = "+" THEN ParseDigits(Tail(t), 0)
       ELSE ParseDigits(t, 0)

\* the index of the first occurrence of character c in s; 0 when there is none
IndexOf(s, c) ==
    IF \A i \in 1..Len(s) : Char(s, i) # c THEN 0
    ELSE CHOOSE i \in 1..Len(s) : Char(s, i) = c /\ \A j \in 1..(i - 1) : Char(s, j) # c

\* reading a file opened in text mode: "\r\n" and "\r" become "\n"
RECURSIVE UniversalNewlines(_)
UniversalNewlines(s) ==
    LET i == IndexOf(s, "\r")
    IN IF i = 0 THEN s
       ELSE SubSeq(s, 1, i - 1) \o "\n"
            \o UniversalNewlines(IF i < Len(s) /\ Char(s, i + 1) = "\n"
                                 THEN SubSeq(s, i + 2, Len(s))
                                 ELSE SubSeq(s, i + 1, Len(s)))

\* file.readlines(): the lines of the text, each with its "\n"; cur is the
\* beginning of the line that s continues
RECURSIVE readlines(_, _)
readlines(s, cur) ==
    LET i == IndexOf(s, "\n")
    IN IF i = 0 THEN (IF cur \o s = "" THEN <<>> ELSE <<cur \o s>>)
       ELSE <<cur \o SubSeq(s, 1, i)>> \o readlines(SubSeq(s, i + 1, Len(s)), "")

RECURSIVE Join(_)
Join(ls) == IF ls = <<>> THEN "" ELSE Head(ls) \o Join(Tail(ls))

\* a variant that takes the lines from the start of the file
FirstLines(ls, n) == IF Len(ls) <= n THEN ls ELSE SubSeq(ls, 1, n)

\* log_lines[-n:] for n >= 1
LastLines(ls, n) == IF Len(ls) <= n THEN ls ELSE SubSeq(ls, Len(ls) - n + 1, Len(ls))

(***************************************************************************)
(* The Flask handlers                                                      *)
(***************************************************************************)
\* request.json of a POST /command: the JSON objects {} ("empty"), {"other": 1}
\* ("nokey") and {"command": c} ("cmd"), and the JSON values ["command"]
\* ("array"), "command" ("string") and 5 ("number")
Bodies == {[kind |-> k, command |-> ""] : k \in {"empty", "nokey", "array", "string", "number"}}
          \cup {[kind |-> "cmd", command |-> c] : c \in Commands}
\* the lines argument of a GET /logs as it stands in the query string
LinesArgs == {NoneVal, "abc", "0", "1", VT \o "2 ", "1_0", "1_", "100", "101", "-1"}
\* a request that is refused for its token is answered before its body or
\* its arguments are read (lines 354, 378): these bodies, and the lines
\* arguments None and "100", stand for all of them
RefusedBodies == {[kind |-> "empty", command |-> ""], [kind |-> "cmd", command |-> "say hi"]}
DEFAULT_LINES == 10
MIN_LINES == 1
MAX_LINES == 100

NoBody == [kind |-> "empty", command |-> ""]
NoReq == [route |-> "none", token |-> NoneVal, body |-> NoBody, lines |-> NoneVal]
NoResp == [status |-> 0, success |-> FALSE, text |-> "", flags |-> <<>>,
           read |-> FALSE, exec |-> FALSE]
Response(st, ok, txt) == [status |-> st, success |-> ok, text |-> txt, flags |-> <<>>,
                          read |-> FALSE, exec |-> FALSE]
Unauthorized == Response(401, FALSE, "Unauthorized")

\* a variant of the check that lets a request without the header through
verify_token_lax(token) == token = SECRET_TOKEN \/ token = NoneVal

\* verify_token: request.headers.get("X-Secret-Token") == SECRET_TOKEN
verify_token(token) == token = SECRET_TOKEN

\* a request thread picks up a request
Accepting(w) ==
    /\ pc[Main] = "serving"
    /\ pc[w] = "idle"
    /\ top[w] = "http"
    /\ served < MaxRequests

\* str(e) of the exception open() or readlines() raised: "enoent" is a file
\* that is gone, "decode" a byte sequence that is not UTF-8, "isdir" a path
\* that cannot be opened as a file
ReadErrText(o) ==
    CASE o = "enoent" -> "[Errno 2] No such file or directory: '" \o LOG_FILE_PATH \o "'"
      [] o = "isdir" -> "[Errno 21] Is a directory: '" \o LOG_FILE_PATH \o "'"
      [] OTHER -> "'utf-8' codec can't decode byte 0xff in position 0: invalid start byte"

\* a variant that returns the lines the watcher has not read yet
get_unread_logs(n, found, o) ==
    IF ~found THEN "Log file not found: " \o LOG_FILE_PATH
    ELSE IF o # "ok" THEN "Error reading logs: " \o ReadErrText(o)
    ELSE Join(LastLines(readlines(UniversalNewlines(
             IF last_log_position >= Len(logfile) THEN ""
             ELSE SubSeq(logfile, last_log_position + 1, Len(logfile))), ""), n))

\* get_recent_logs(lines): the text returned, where found is what
\* os.path.exists gave (line 320) and o what open() and readlines() did
\* (lines 325-326)
get_recent_logs(n, found, o) ==
    IF ~found THEN "Log file not found: " \o LOG_FILE_PATH
    ELSE IF o # "ok" THEN "Error reading logs: " \o ReadErrText(o)
    ELSE Join(LastLines(readlines(UniversalNewlines(logfile), ""), n))

\* POST /command, up to the call of minecraft_rcon.command (lines 349-364); a
\* TypeError raised by line 358 or line 362 is answered by Flask with 500
HandleCommand(w) ==
    /\ Accepting(w)
    /\ served' = served + 1
    /\ \E t \in Tokens, b \in Bodies :
        LET \* line 358, `not data`: the JSON values that are false
            Falsy == b.kind = "empty"
            \* line 358, `"command" not in data`: raises TypeError on a number
            Container == b.kind # "number"
            \* line 358, `"command" in data`: a key of the object, an element
            \* of the array, a substring of the string
            HasCommand == b.kind \in {"cmd", "array", "string"}
            \* line 362, data["command"]: raises TypeError on an array and on
            \* a string
            Subscriptable == b.kind \in {"empty", "nokey", "cmd"}
        IN
        /\ ~verify_token(t) => b \in RefusedBodies
        /\ req' = [req EXCEPT ![w] = [route |-> "command", token |-> t, body |-> b,
                                      lines |-> NoneVal]]
        /\ IF ~verify_token(t)
           THEN /\ resp' = [resp EXCEPT ![w] = Unauthorized]
                /\ pc' = [pc EXCEPT ![w] = "replied"]
                /\ UNCHANGED callVars
           ELSE IF (~Falsy /\ ~Container) \/ (~Falsy /\ HasCommand /\ ~Subscriptable)
           THEN /\ resp' = [resp EXCEPT ![w] = Response(500, FALSE, "Internal Server Error")]
                /\ pc' = [pc EXCEPT ![w] = "replied"]
                /\ UNCHANGED callVars
           ELSE IF Falsy \/ ~HasCommand
           THEN /\ resp' = [resp EXCEPT ![w] = Response(400, FALSE, "Command is required")]
                /\ pc' = [pc EXCEPT ![w] = "replied"]
                /\ UNCHANGED callVars
           ELSE /\ resp' = [resp EXCEPT ![w] = NoResp]
                /\ pc' = [pc EXCEPT ![w] = "cmd_check"]
                /\ EnterCall(w, TRUE, b.command)
    /\ Silent /\ UNCHANGED <<sessionVars, top, chatVars, established, testVars, fileVars, tailVars>>

\* POST /command, after command() returned (lines 366-369); an exception that
\* left command() is answered by Flask with 500
Respond(w) ==
    /\ pc[w] = "respond"
    /\ top[w] = "http"
    /\ pc' = [pc EXCEPT ![w] = "replied"]
    /\ resp' = [resp EXCEPT ![w] =
                 IF raised[w]
                 THEN [Response(500, FALSE, "Internal Server Error") EXCEPT !.exec = TRUE]
                 ELSE [Response(200, TRUE, IF result[w] = "" THEN NO_RESPONSE ELSE result[w])
                        EXCEPT !.exec = TRUE]]
    /\ Silent /\ UNCHANGED <<sessionVars, top, chatVars, established, callVars, req, served, testVars, fileVars,
                             tailVars>>

\* line 382: int(request.args.get("lines", 10))
LinesOf(l) == IF l = NoneVal THEN DEFAULT_LINES ELSE ParseInt(l)

\* GET /logs, up to the call of get_recent_logs (lines 373-391)
HandleLogs(w) ==
    /\ Accepting(w)
    /\ served' = served + 1
    /\ \E t \in Tokens, l \in LinesArgs :
        /\ ~verify_token(t) => l \in {NoneVal, "100"}
        /\ req' = [req EXCEPT ![w] = [route |-> "logs", token |-> t, body |-> NoBody,
                                      lines |-> l]]
        /\ IF ~verify_token(t)
           THEN /\ resp' = [resp EXCEPT ![w] = Unauthorized]
                /\ pc' = [pc EXCEPT ![w] = "replied"]
           ELSE IF l # NoneVal /\ ~IsIntLiteral(l)
           THEN /\ resp' = [resp EXCEPT ![w] =
                              Response(400, FALSE, "Invalid lines parameter")]
                /\ pc' = [pc EXCEPT ![w] = "replied"]
           ELSE IF LinesOf(l) < MIN_LINES \/ LinesOf(l) > MAX_LINES
           THEN /\ resp' = [resp EXCEPT ![w] =
                              Response(400, FALSE, "Please request between 1 and 100 lines")]
                /\ pc' = [pc EXCEPT ![w] = "replied"]
           ELSE /\ resp' = [resp EXCEPT ![w] = NoResp]
                /\ pc' = [pc EXCEPT ![w] = "logs_exists"]
    /\ Silent /\ UNCHANGED <<sessionVars, top, chatVars, established, callVars, testVars, fileVars, tailVars>>

\* get_recent_logs, lines 320-322: os.path.exists(LOG_FILE_PATH)
LogsExists(w) ==
    /\ pc[w] = "logs_exists"
    /\ IF fileExists
       THEN /\ pc' = [pc EXCEPT ![w] = "logs_read"]
            /\ UNCHANGED resp
       ELSE /\ pc' = [pc EXCEPT ![w] = "replied"]
            /\ resp' = [resp EXCEPT ![w] =
                          Response(200, TRUE,
                                   get_recent_logs(LinesOf(req[w].lines), FALSE, "ok"))]
    /\ Silent /\ UNCHANGED <<sessionVars, top, chatVars, established, callVars, req, served, testVars, fileVars,
                             tailVars>>

\* get_recent_logs, lines 325-334, and the answer (lines 391-393): open() and
\* readlines(); an exception gives the text of lines 332-334
LogsRead(w) ==
    /\ pc[w] = "logs_read"
    /\ pc' = [pc EXCEPT ![w] = "replied"]
    /\ \E o \in {"ok", "decode", "isdir", "enoent"} :
        /\ o = "enoent" <=> ~fileExists
        /\ resp' = [resp EXCEPT ![w] =
                      [Response(200, TRUE, get_recent_logs(LinesOf(req[w].lines), TRUE, o))
                         EXCEPT !.read = (o = "ok")]]
    /\ Silent /\ UNCHANGED <<sessionVars, top, chatVars, established, callVars, req, served, testVars, fileVars,
                             tailVars>>

\* line 408: the value of "rconConnected" in the status dict
rconConnected == rcon_connected

\* lines 409-411: the value of "logWatcherActive" in the status dict,
\* os.path.exists(LOG_FILE_PATH) if LOG_FILE_PATH else False
logWatcherActive == IF LOG_FILE_PATH # "" THEN fileExists ELSE FALSE

\* GET /status, lines 397-408: the token, then the status dict is built in
\* the order it is written: rcon_connected is read first
HandleStatus(w) ==
    /\ Accepting(w)
    /\ served' = served + 1
    /\ \E t \in Tokens :
        /\ req' = [req EXCEPT ![w] = [route |-> "status", token |-> t, body |-> NoBody,
                                      lines |-> NoneVal]]
        /\ IF ~verify_token(t)
           THEN /\ resp' = [resp EXCEPT ![w] = Unauthorized]
                /\ pc' = [pc EXCEPT ![w] = "replied"]
           ELSE /\ resp' = [resp EXCEPT ![w] = [NoResp EXCEPT !.flags = <<rconConnected>>]]
                /\ pc' = [pc EXCEPT ![w] = "status_exists"]
    /\ Silent /\ UNCHANGED <<sessionVars, top, chatVars, established, callVars, testVars, fileVars, tailVars>>

\* GET /status, lines 409-416: os.path.exists is called after rcon_connected
\* was read, and the dict is answered
StatusExists(w) ==
    /\ pc[w] = "status_exists"
    /\ pc' = [pc EXCEPT ![w] = "replied"]
    /\ resp' = [resp EXCEPT ![w] =
                 [Response(200, TRUE, "") EXCEPT !.flags = Append(resp[w].flags, logWatcherActive)]]
    /\ Silent /\ UNCHANGED <<sessionVars, top, chatVars, established, callVars, req, served, testVars, fileVars,
                             tailVars>>

\* the response has been written; the thread takes the next request
Finish(w) ==
    /\ pc[w] = "replied"
    /\ pc' = [pc EXCEPT ![w] = "idle"]
    /\ req' = [req EXCEPT ![w] = NoReq]
    /\ resp' = [resp EXCEPT ![w] = NoResp]
    /\ EnterCall(w, FALSE, "")
    /\ Silent /\ UNCHANGED <<sessionVars, top, chatVars, established, served, testVars, fileVars, tailVars>>


(***************************************************************************)
(* The classifier                                                          *)
(***************************************************************************)
\* IMPORTANT_PATTERNS as the text each regular expression matches (the only
\* metacharacters in the source are the escaped brackets of \[ERROR\])
IMPORTANT_PATTERNS ==
    << "joined the game", "left the game", "Starting minecraft server",
       "Stopping server", "[ERROR]", "SEVERE", "was slain by", "was killed by",
       "Can't keep up!", "issued server command" >>

\* re.IGNORECASE on ASCII text: compare letters by their lower-case form
LOWER ==
    [ A |-> "a", B |-> "b", C |-> "c", D |-> "d", E |-> "e", F |-> "f", G |-> "g",
      H |-> "h", I |-> "i", J |-> "j", K |-> "k", L |-> "l", M |-> "m", N |-> "n",
      O |-> "o", P |-> "p", Q |-> "q", R |-> "r", S |-> "s", T |-> "t", U |-> "u",
      V |-> "v", W |-> "w", X |-> "x", Y |-> "y", Z |-> "z" ]
Fold(c) == IF c \in DOMAIN LOWER THEN LOWER[c] ELSE c

RECURSIVE FoldAll(_)
FoldAll(s) == IF s = "" THEN "" ELSE Fold(Head(s)) \o FoldAll(Tail(s))

\* line 71: the compiled patterns, re.IGNORECASE
IMPORTANT_REGEX == [k \in 1..Len(IMPORTANT_PATTERNS) |-> FoldAll(IMPORTANT_PATTERNS[k])]

\* pattern.search(line) for one compiled pattern, on the folded line
search(pattern, folded) ==
    \E i \in 1..(Len(folded) - Len(pattern) + 1) :
        SubSeq(folded, i, i + Len(pattern) - 1) = pattern

\* is_important_log(line): any(pattern.search(line) for pattern in IMPORTANT_REGEX)
is_important_log(line) ==
    LET folded == FoldAll(line)
    IN \E k \in 1..Len(IMPORTANT_REGEX) : search(IMPORTANT_REGEX[k], folded)

(***************************************************************************)
(* The log file and its writer (the game server)                           *)
(***************************************************************************)
MaxAppends == 2

\* what the game server writes.  The text of the file is ASCII, so that a
\* size in bytes is a number of characters.
Chunks == { "[INFO] Player1 joined the game\n",
            "[INFO] tick" \o VT \o "\n[Error] x",
            "\r\n" }
InitialLogs == { "", "[INFO] Bob left the game\n[INFO] tick\n" }
RotatedLogs == { "", "[INFO] Stopping server\n" }
ServedLog == "[INFO] Bob left the game\r\n[INFO] tick\n\n[Error] x"

\* the game server appends to its log
LogAppend ==
    /\ fileExists
    /\ appends < MaxAppends
    /\ appends' = appends + 1
    /\ \E c \in Chunks : logfile' = logfile \o c
    /\ UNCHANGED <<fileExists, rotated, shrunk, history>>

\* the log is cut in place after one of its lines: the lines before the cut stay
LogTruncate ==
    /\ fileExists
    /\ appends < MaxAppends
    /\ appends' = appends + 1
    /\ \E k \in 1..(Len(logfile) - 1) :
        /\ Char(logfile, k) = "\n"
        /\ logfile' = SubSeq(logfile, 1, k)
        /\ history' = IF history < k THEN history ELSE k
    /\ rotated' = TRUE
    /\ shrunk' = TRUE
    /\ UNCHANGED fileExists

\* the log is rotated: the file is replaced by a new one, empty or already written to
LogRotate ==
    /\ fileExists
    /\ appends < MaxAppends
    /\ appends' = appends + 1
    /\ logfile' \in RotatedLogs
    /\ rotated' = TRUE
    /\ shrunk' = TRUE
    /\ history' = 0
    /\ UNCHANGED fileExists

\* the log is moved away
LogRemove ==
    /\ fileExists
    /\ appends < MaxAppends
    /\ appends' = appends + 1
    /\ fileExists' = FALSE
    /\ logfile' = ""
    /\ rotated' = TRUE
    /\ shrunk' = TRUE
    /\ history' = 0

\* a new log is created
LogCreate ==
    /\ ~fileExists
    /\ appends < MaxAppends
    /\ appends' = appends + 1
    /\ fileExists' = TRUE
    /\ logfile' = ""
    /\ rotated' = TRUE
    /\ shrunk' = TRUE
    /\ history' = 0

Writer ==
    /\ LogAppend \/ LogTruncate \/ LogRotate \/ LogRemove \/ LogCreate
    /\ Silent /\ UNCHANGED <<sessionVars, pc, top, chatVars, established, callVars, httpVars, testVars, tailVars>>

(***************************************************************************)
(* LogWatcher                                                              *)
(***************************************************************************)
\* str.splitlines() of text read in text mode: the characters that end a line
\* are \n, \r, \v, \f, U+001C, U+001D, U+001E and U+0085 (U+2028 and U+2029
\* cannot be written in a string literal; the texts of the model hold neither)
LineBoundaries == {"\n", "\r", "\f", VT, "", "", "", ""}
RECURSIVE splitlines(_, _)
splitlines(s, cur) ==
    IF s = "" THEN (IF cur = "" THEN <<>> ELSE <<cur>>)
    ELSE IF Head(s) \in LineBoundaries
         THEN <<cur>> \o splitlines(IF Head(s) = "\r" /\ Len(s) > 1 /\ Char(s, 2) = "\n"
                                    THEN SubSeq(s, 3, Len(s)) ELSE Tail(s), "")
         ELSE splitlines(Tail(s), cur \o Head(s))

\* file.seek(pos); file.read(): everything from pos to the end of the file
ReadFrom(pos) ==
    UniversalNewlines(IF pos >= Len(logfile) THEN "" ELSE SubSeq(logfile, pos + 1, Len(logfile)))

\* the message sent for a line: the line between two code fences (three
\* backquotes each in the source; the lexer takes no backquote in a string,
\* so three apostrophes stand for the fence)
FENCE == "'''"
Wrap(line) == FENCE \o line \o FENCE

\* a variant of the loop that forwards every non-empty line
RECURSIVE ForwardEvery(_)
ForwardEvery(lines) ==
    IF lines = <<>> THEN <<>>
    ELSE (IF Head(lines) # "" THEN <<Wrap(Head(lines))>> ELSE <<>>)
         \o ForwardEvery(Tail(lines))

\* lines 260-267: the messages of the loop over the lines, in order
RECURSIVE Forward(_)
Forward(lines) ==
    IF lines = <<>> THEN <<>>
    ELSE (IF Head(lines) # "" /\ is_important_log(Head(lines))
          THEN <<Wrap(Head(lines))>> ELSE <<>>) \o Forward(Tail(lines))

\* a variant of the watcher without the rotation check
RotationNever(size, pos) == FALSE

\* a variant of the watcher that takes only an empty file for a rotated one
RotationOnlyWhenEmpty(size, pos) == size = 0 /\ pos > 0

\* line 237: the log has been rotated
RotationDetected(size, pos) == size < pos

\* line 242: there is new content
HasNewContent(size, pos) == size > pos

\* line 252: the position after a read that observed size and read up to eof
NextPosition(size, eof) == size

\* lines 229-242: a change notification: read the size, detect rotation
WatchSize ==
    /\ observer = "running"
    /\ wpc = "idle"
    /\ fileExists
    /\ LET size == Len(logfile)
           pos == IF RotationDetected(size, last_log_position) THEN 0 ELSE last_log_position
       IN /\ last_log_position' = pos
          /\ current_size' = size
          /\ detected' = (size < last_log_position)
          /\ wpc' = IF HasNewContent(size, pos) THEN "sized" ELSE "idle"
    /\ failed' = FALSE
    /\ shrunk' = FALSE
    /\ Silent /\ UNCHANGED <<sessionVars, pc, top, chatVars, established, callVars, httpVars, testVars,
                             logfile, fileExists, appends, rotated, history,
                             observer, batches>>

\* lines 247-257: read the new content, move the position, split the content
\* into lines; the loop over the lines makes no call when none of them is
\* important
WatchRead ==
    /\ wpc = "sized"
    /\ fileExists
    /\ LET content == ReadFrom(last_log_position)
       IN /\ batches' = [read |-> TRUE, from |-> last_log_position,
                         to |-> Len(logfile), size |-> current_size,
                         before |-> IF batches.to > batches.before
                                    THEN batches.to ELSE batches.before,
                         rotation |-> detected, content |-> content, sent |-> <<>>]
          /\ wpc' = IF Forward(splitlines(content, "")) = <<>> THEN "idle" ELSE "forward"
    /\ last_log_position' = NextPosition(current_size, Len(logfile))
    /\ Silent
    /\ UNCHANGED <<sessionVars, pc, top, chatVars, established, callVars, httpVars, testVars, fileVars,
                   observer, current_size, detected, failed>>

\* lines 260-267: the loop hands the next important line to
\* send_webhook_message, one call for each line
WatchForward ==
    /\ wpc = "forward"
    /\ LET msgs == Forward(splitlines(batches.content, ""))
           k == Len(batches.sent) + 1
       IN /\ webhook' = Said(msgs[k])
          /\ batches' = [batches EXCEPT !.sent = Append(@, msgs[k])]
          /\ wpc' = IF k = Len(msgs) THEN "idle" ELSE "forward"
    /\ UNCHANGED <<sessionVars, pc, top, chatVars, established, callVars, httpVars, testVars, fileVars,
                   last_log_position, observer, current_size, detected, failed>>

\* a variant of the handler that moves the position before it opens the file
ErrorPositionAdvanced(pos, size) == size

\* lines 247-252, 276: an exception in open(), seek() or read() skips line 252
ErrorPosition(pos, size) == pos

\* lines 229, 276-278: os.path.getsize raises (the file is gone): the error is
\* logged and the handler returns
WatchSizeError ==
    /\ observer = "running"
    /\ wpc = "idle"
    /\ ~fileExists
    /\ failed' = TRUE
    /\ Silent /\ UNCHANGED <<sessionVars, pc, top, chatVars, established, callVars, httpVars, testVars,
                             fileVars, last_log_position, observer, wpc, current_size,
                             detected, batches>>

\* lines 247-249, 276-278: open() fails (the file is gone or cannot be opened)
\* or read() fails (the bytes are not UTF-8): the error is logged
WatchReadError ==
    /\ wpc = "sized"
    /\ wpc' = "idle"
    /\ failed' = TRUE
    /\ last_log_position' = ErrorPosition(last_log_position, current_size)
    /\ Silent /\ UNCHANGED <<sessionVars, pc, top, chatVars, established, callVars, httpVars, testVars,
                             fileVars, observer, current_size, detected, batches>>

(***************************************************************************)
(* __main__                                                                *)
(***************************************************************************)
\* line 204: last_log_position = os.path.getsize(file_path)
StartPosition(size) == size

\* start_log_watcher(), lines 427-432: os.path.exists(LOG_FILE_PATH); without
\* the file the failure is announced and no watcher is made
StartLogWatcher ==
    /\ pc[Main] = "start_watch"
    /\ IF fileExists
       THEN /\ pc' = [pc EXCEPT ![Main] = "w_init"]
            /\ Silent
       ELSE /\ pc' = [pc EXCEPT ![Main] = "online"]
            /\ webhook' = Said(MSG_NO_FILE)
    /\ UNCHANGED <<sessionVars, top, chatVars, established, callVars, httpVars, testVars, fileVars,
                   tailVars>>

\* LogWatcher.__init__, lines 203, 209-210: os.path.exists(file_path); without
\* the file the failure is announced and the position stays as it is
WatcherInit ==
    /\ pc[Main] = "w_init"
    /\ IF fileExists
       THEN /\ pc' = [pc EXCEPT ![Main] = "w_size"]
            /\ Silent
       ELSE /\ pc' = [pc EXCEPT ![Main] = "w_observe"]
            /\ webhook' = Said(MSG_NO_FILE)
    /\ UNCHANGED <<sessionVars, top, chatVars, established, callVars, httpVars, testVars, fileVars,
                   tailVars>>

\* LogWatcher.__init__, lines 204, 211-212: os.path.getsize(file_path); the
\* exception it raises when the file is gone is logged
WatcherSize ==
    /\ pc[Main] = "w_size"
    /\ pc' = [pc EXCEPT ![Main] = "w_observe"]
    /\ IF fileExists
       THEN /\ last_log_position' = StartPosition(Len(logfile))
            /\ history' = Len(logfile)
            /\ shrunk' = FALSE
       ELSE UNCHANGED <<last_log_position, history, shrunk>>
    /\ Silent
    /\ UNCHANGED <<sessionVars, top, chatVars, established, callVars, httpVars, testVars, logfile, fileExists,
                   appends, rotated, observer, wpc, current_size, detected, failed, batches>>

\* what Observer(), schedule() and start() do: "other" is one of them raising
ObserveOutcomes == {"ok", "other"}

\* start_log_watcher(), lines 437-446: the observer is scheduled and started;
\* when that raises, the except clause logs it and there is no observer
WatcherObserve ==
    /\ pc[Main] = "w_observe"
    /\ pc' = [pc EXCEPT ![Main] = "online"]
    /\ \E o \in ObserveOutcomes : observer' = (IF o = "ok" THEN "running" ELSE "none")
    /\ Silent
    /\ UNCHANGED <<sessionVars, top, chatVars, established, callVars, httpVars, testVars, fileVars,
                   last_log_position, wpc, current_size, detected, failed, batches>>

\* lines 494-500: the startup banner, then app.run
Online ==
    /\ pc[Main] = "online"
    /\ pc' = [pc EXCEPT ![Main] = "serving"]
    /\ webhook' = Said(MSG_ONLINE)
    /\ UNCHANGED <<sessionVars, top, chatVars, established, callVars, httpVars, testVars, fileVars, tailVars>>

\* lines 502-512: app.run ends (interrupt or error); finally: disconnect
Shutdown ==
    /\ pc[Main] = "serving"
    /\ pc' = [pc EXCEPT ![Main] = "d_check"]
    /\ Silent /\ UNCHANGED <<sessionVars, top, chatVars, established, callVars, httpVars, testVars, fileVars,
                             tailVars>>

\* lines 515-517: if observer: observer.stop().  The observer takes no
\* notification from now on; the handler that is running goes on.  Without
\* an observer the shutdown banner is next (lines 520-523).
StopWatcher ==
    /\ pc[Main] = "stop_watch"
    /\ IF observer = "running"
       THEN /\ observer' = "stopped"
            /\ pc' = [pc EXCEPT ![Main] = "join"]
            /\ Silent
       ELSE /\ observer' = observer
            /\ pc' = [pc EXCEPT ![Main] = "stopped"]
            /\ webhook' = Said(MSG_SHUTDOWN)
    /\ UNCHANGED <<sessionVars, top, chatVars, established, callVars, httpVars, testVars, fileVars,
                   last_log_position, wpc, current_size, detected, failed, batches>>

\* line 518: observer.join() waits until the observer's thread has ended,
\* that is until the handler it was running has returned; lines 520-523: the
\* shutdown banner
JoinWatcher ==
    /\ pc[Main] = "join"
    /\ wpc = "idle"
    /\ pc' = [pc EXCEPT ![Main] = "stopped"]
    /\ webhook' = Said(MSG_SHUTDOWN)
    /\ UNCHANGED <<sessionVars, top, chatVars, established, callVars, httpVars, testVars, fileVars,
                   tailVars>>

(***************************************************************************)
(* A sequential caller of the session's methods                            *)
(***************************************************************************)
MaxCalls == 4
SessionOps == {"connect", "disconnect", "command"}

TestCall(a) ==
    /\ pc[a] = "t_idle"
    /\ served < MaxCalls
    /\ served' = served + 1
    /\ snap' = <<rcon_connected, rcon, sock>>
    /\ \E op \in SessionOps :
        /\ lastOp' = <<lastOp[2], op>>
        /\ pc' = [pc EXCEPT ![a] = CASE op = "connect" -> "c_new"
                                     [] op = "disconnect" -> "d_check"
                                     [] OTHER -> "cmd_check"]
        /\ IF op = "command"
           THEN \E c \in Commands : EnterCall(a, TRUE, c)
           ELSE EnterCall(a, FALSE, "")
    /\ Silent /\ UNCHANGED <<sessionVars, top, chatVars, established, req, resp, fileVars, tailVars>>

TestReturn(a) ==
    /\ pc[a] = "t_ret"
    /\ pc' = [pc EXCEPT ![a] = "t_idle"]
    /\ Silent /\ UNCHANGED <<sessionVars, top, chatVars, established, callVars, httpVars, testVars, fileVars,
                             tailVars>>


(***************************************************************************)
(* discord_integration.py: the slash commands of the chat front end.  One  *)
(* handler runs at a time, step by step at its awaits; the API server is   *)
(* the environment of the front end: every HTTP call has a                 *)
(* nondeterministic outcome.  Role ids are written as decimal strings; "0" *)
(* is the id 0 that int() gives for ADMIN_ROLE_ID=0.                       *)
(***************************************************************************)
MaxInvocations == 2

WEBHOOK_SERVER_URL == "http://127.0.0.1:5000"
AdminRoleSettings == {NoneVal, "0", "7"}
RoleIds == {"7", "9"}
SlashCommands == {"mc", "logs", "status"}
LinesOptions == {0, 1, 10, 100, 101}
CHUNK_SIZE == 1900

MSG_NEED_ADMIN == "You need the Admin role to use this command"
MSG_BAD_LINES == "Please request between 1 and 100 lines"
MSG_NO_SERVER ==
    "Error: Could not connect to Minecraft Terminal server. Please check if it's running."
MSG_TIMEOUT == "Error: Connection to Minecraft Terminal server timed out."

\* the "status" value of the payload of GET /status: a dict with, or
\* without, the keys the handler asks for
StatusDicts == UNION {[K -> BOOLEAN] : K \in SUBSET {"rconConnected", "logWatcherActive"}}

\* what the API server, or the network, does with a request: a JSON object
\* with one key (or none) whose value is the str text, or the dict when isdict.
\* The texts are the empty one, one of a single code block and one that is a
\* character longer than a code block holds.
ApiOutcomes ==
    LET RECURSIVE Xs(_)
        Xs(n) == IF n = 0 THEN ""
                 ELSE IF n % 2 = 0 THEN LET h == Xs(n \div 2) IN h \o h
                 ELSE "x" \o Xs(n - 1)
    IN
    {[kind |-> "json", status |-> 200, key |-> k, text |-> t, isdict |-> FALSE, dict |-> <<>>] :
        k \in {"result", "logs", "status", "none"},
        t \in {"", "There are 0 players", Xs(CHUNK_SIZE + 1)}}
    \cup {[kind |-> "json", status |-> 200, key |-> "status", text |-> "", isdict |-> TRUE,
            dict |-> d] : d \in StatusDicts}
    \cup {[kind |-> "json", status |-> st, key |-> k, text |-> "Unauthorized", isdict |-> FALSE,
            dict |-> <<>>] : st \in {400, 401}, k \in {"error", "none"}}
    \cup {[kind |-> k, status |-> 0, key |-> "none", text |-> "", isdict |-> FALSE, dict |-> <<>>] :
            k \in {"connection_error", "timeout", "other"}}
NoOutcome == [kind |-> "none", status |-> 0, key |-> "none", text |-> "", isdict |-> FALSE,
              dict |-> <<>>]

NoInteraction == [name |-> "none", roles |-> {}, command |-> "", lines |-> 0, created_at |-> 0]

\* a message to the interaction: a text, or an embed
NoEmbed == [title |-> "", color |-> "", timestamp |-> 0, fields |-> <<>>]
Message(txt, eph) == [text |-> txt, ephemeral |-> eph, embed |-> NoEmbed]

\* d.get(k, False)
Get(d, k) == IF k \in DOMAIN d THEN d[k] ELSE FALSE

\* lines 316-332: the embed of /status (the emoji prefixes of the field
\* values are left out)
StatusEmbed(status_data, created_at) ==
    LET rcon_ok == Get(status_data, "rconConnected")
        log_watcher_active == Get(status_data, "logWatcherActive")
    IN [title |-> "Minecraft Server Status",
        color |-> IF rcon_ok THEN "green" ELSE "red",
        timestamp |-> created_at,
        fields |-> << [name |-> "RCON Connection",
                       value |-> IF rcon_ok THEN "Connected" ELSE "Disconnected",
                       inline |-> TRUE],
                      [name |-> "Log Watcher",
                       value |-> IF log_watcher_active THEN "Active" ELSE "Inactive",
                       inline |-> TRUE] >>]

\* format_code_blocks(text), lines 49-66
RECURSIVE Chunked(_)
Chunked(text) ==
    IF text = "" THEN <<>>
    ELSE IF Len(text) <= CHUNK_SIZE THEN <<FENCE \o "\n" \o text \o "\n" \o FENCE>>
    ELSE <<FENCE \o "\n" \o SubSeq(text, 1, CHUNK_SIZE) \o "\n" \o FENCE>>
         \o Chunked(SubSeq(text, CHUNK_SIZE + 1, Len(text)))
format_code_blocks(text) == IF text = "" THEN <<"No output">> ELSE Chunked(text)

\* `not ADMIN_ROLE_ID`: None and 0 are false
NotSet(id) == id = NoneVal \/ id = "0"

\* a variant of the check that lets everyone in when no role is configured
has_admin_role_open(roles) == NotSet(ADMIN_ROLE_ID) \/ ADMIN_ROLE_ID \in roles

\* has_admin_role(member), lines 70-80, for a member with these role ids
has_admin_role(roles) ==
    IF NotSet(ADMIN_ROLE_ID) THEN FALSE ELSE \E r \in roles : r = ADMIN_ROLE_ID

\* a member invokes a slash command (lines 121-125, 199-205, 283-287)
ChatInvoke ==
    /\ ipc = "idle"
    /\ invocations < MaxInvocations
    /\ invocations' = invocations + 1
    /\ \E n \in SlashCommands, rs \in SUBSET RoleIds, c \in Commands, l \in LinesOptions :
        interaction' = [name |-> n, roles |-> rs,
                        command |-> IF n = "mc" THEN c ELSE "",
                        lines |-> IF n = "logs" THEN l ELSE 0,
                        created_at |-> invocations']
    /\ ipc' = "check"
    /\ deferred' = FALSE /\ sent' = <<>> /\ posted' = <<>> /\ api' = NoOutcome
    /\ UNCHANGED <<serverVars, ADMIN_ROLE_ID>>

\* lines 127-135 and 207-215: the role check of /mc and /logs; /status has none
RoleCheck ==
    /\ ipc = "check"
    /\ IF interaction.name \in {"mc", "logs"} /\ ~has_admin_role(interaction.roles)
       THEN /\ sent' = Append(sent, Message(MSG_NEED_ADMIN, TRUE))
            /\ ipc' = "done"
       ELSE /\ sent' = sent
            /\ ipc' = IF interaction.name = "logs" THEN "validate" ELSE "defer"
    /\ UNCHANGED <<serverVars, ADMIN_ROLE_ID, interaction, deferred, posted, api, invocations>>

\* lines 217-226: /logs validates its argument
ValidateLines ==
    /\ ipc = "validate"
    /\ IF interaction.lines < MIN_LINES \/ interaction.lines > MAX_LINES
       THEN /\ sent' = Append(sent, Message(MSG_BAD_LINES, TRUE))
            /\ ipc' = "done"
       ELSE /\ sent' = sent
            /\ ipc' = "defer"
    /\ UNCHANGED <<serverVars, ADMIN_ROLE_ID, interaction, deferred, posted, api, invocations>>

\* lines 139, 229, 290: await interaction.response.defer()
Defer ==
    /\ ipc = "defer"
    /\ deferred' = TRUE
    /\ ipc' = "request"
    /\ UNCHANGED <<serverVars, ADMIN_ROLE_ID, interaction, sent, posted, api, invocations>>

\* the request of each command (lines 146-151, 236-241, 297-299)
RequestOf(i) ==
    CASE i.name = "mc" ->
            [method |-> "POST", url |-> WEBHOOK_SERVER_URL \o "/command",
             token |-> SECRET_TOKEN, command |-> i.command, lines |-> 0]
      [] i.name = "logs" ->
            [method |-> "GET", url |-> WEBHOOK_SERVER_URL \o "/logs",
             token |-> SECRET_TOKEN, command |-> "", lines |-> i.lines]
      [] OTHER ->
            [method |-> "GET", url |-> WEBHOOK_SERVER_URL \o "/status",
             token |-> SECRET_TOKEN, command |-> "", lines |-> 0]

\* requests.post / requests.get with timeout=10
HttpRequest ==
    /\ ipc = "request"
    /\ posted' = Append(posted, RequestOf(interaction))
    /\ api' \in ApiOutcomes
    /\ ipc' = "reply"
    /\ UNCHANGED <<serverVars, ADMIN_ROLE_ID, interaction, deferred, sent, invocations>>

\* the key of the 200 payload each command reads, and its default
PayloadKey(n) == CASE n = "mc" -> "result" [] n = "logs" -> "logs" [] OTHER -> "status"
PayloadDefault(n) == IF n = "mc" THEN "No response" ELSE "No logs available"

RECURSIVE AsMessages(_)
AsMessages(txts) ==
    IF txts = <<>> THEN <<>> ELSE <<Message(Head(txts), FALSE)>> \o AsMessages(Tail(txts))

\* str(e) of the AttributeError of line 305, raised when the "status" value
\* of the payload is a str
NO_GET == "'str' object has no attribute 'get'"

\* lines 155-195, 245-280, 303-357: what is sent after the HTTP call.  /mc
\* and /logs send the code blocks of the text under their key; /status
\* sends one embed made from response.json().get("status", {}), and the
\* text of the exception when that value is a str
FollowUps(i, o) ==
    CASE o.kind = "connection_error" -> AsMessages(<<MSG_NO_SERVER>>)
      [] o.kind = "timeout" -> AsMessages(<<MSG_TIMEOUT>>)
      [] o.kind = "other" -> AsMessages(<<"Error: " \o ErrText("other")>>)
      [] o.status = 200 /\ i.name = "status" ->
            IF o.key = "status" /\ ~o.isdict
            THEN AsMessages(<<"Error: " \o NO_GET>>)
            ELSE <<[Message("", FALSE) EXCEPT
                      !.embed = StatusEmbed(IF o.key = "status" THEN o.dict ELSE <<>>,
                                            i.created_at)]>>
      [] o.status = 200 ->
            AsMessages(format_code_blocks(IF o.key = PayloadKey(i.name) THEN o.text
                                          ELSE PayloadDefault(i.name)))
      [] OTHER -> AsMessages(<<"Error: " \o (IF o.key = "error" THEN o.text
                                             ELSE "Unknown error")>>)

\* one await interaction.followup.send(...): lines 167 and 172, 254 and 259,
\* 335 and the sends of the error texts.  Each send is a step of its own, the
\* handler being suspended in it ("followup") while messages are left to
\* send; it returns after the last one.
FollowUp ==
    /\ ipc \in {"reply", "followup"}
    /\ LET msgs == FollowUps(interaction, api)
           k == Len(sent) + 1
       IN /\ sent' = Append(sent, msgs[k])
          /\ ipc' = IF k < Len(msgs) THEN "followup" ELSE "done"
    /\ UNCHANGED <<serverVars, ADMIN_ROLE_ID, interaction, deferred, posted, api, invocations>>

\* the handler has returned
ChatFinish ==
    /\ ipc = "done"
    /\ ipc' = "idle"
    /\ interaction' = NoInteraction
    /\ deferred' = FALSE /\ sent' = <<>> /\ posted' = <<>> /\ api' = NoOutcome
    /\ UNCHANGED <<serverVars, ADMIN_ROLE_ID, invocations>>

\* the front end before any slash command
ChatIdle ==
    /\ ipc = "idle"
    /\ interaction = NoInteraction
    /\ deferred = FALSE /\ sent = <<>> /\ posted = <<>> /\ api = NoOutcome
    /\ invocations = 0

\* the specifications of the API server leave the front end out
ChatOff == ADMIN_ROLE_ID = NoneVal /\ ChatIdle

(***************************************************************************)
(* Initial states and specifications                                       *)
(***************************************************************************)
NoBatch == [read |-> FALSE, from |-> 0, to |-> 0, size |-> 0, before |-> 0,
            rotation |-> FALSE, content |-> "", sent |-> <<>>]

\* module level (lines 52-53) and MinecraftRCON.__init__ (line 91)
InitState ==
    /\ rcon_connected = FALSE
    /\ rcon = 0
    /\ sock = [h \in Handles |-> "unborn"]
    /\ established = 0
    /\ inCmd = [a \in Actors |-> FALSE]
    /\ cmd = [a \in Actors |-> ""]
    /\ hnd = [a \in Actors |-> 0]
    /\ first = [a \in Actors |-> "none"]
    /\ second = [a \in Actors |-> "none"]
    /\ cres = [a \in Actors |-> "none"]
    /\ caught = [a \in Actors |-> "none"]
    /\ sends = [a \in Actors |-> 0]
    /\ ndisc = [a \in Actors |-> 0]
    /\ nconn = [a \in Actors |-> 0]
    /\ result = [a \in Actors |-> NoneVal]
    /\ raised = [a \in Actors |-> FALSE]
    /\ req = [w \in Workers |-> NoReq]
    /\ resp = [w \in Workers |-> NoResp]
    /\ served = 0
    /\ lastOp = <<"none", "none">>
    /\ snap = <<FALSE, 0, [h \in Handles |-> "unborn"]>>
    /\ webhook = <<>>
    /\ last_log_position = 0
    /\ observer = "none"
    /\ wpc = "idle"
    /\ current_size = 0
    /\ detected = FALSE
    /\ failed = FALSE
    /\ appends = 0
    /\ rotated = FALSE
    /\ shrunk = FALSE
    /\ history = 0
    /\ batches = NoBatch
    /\ ChatOff

\* the process at line 479, about to make the startup connect
Init ==
    /\ InitState
    /\ pc = [a \in Actors |-> IF a = Main THEN "c_new" ELSE "idle"]
    /\ top = [a \in Actors |-> IF a = Main THEN "main" ELSE "http"]
    /\ fileExists \in BOOLEAN
    /\ logfile = (IF fileExists THEN ServedLog ELSE "")

SessionStep(a) ==
    \/ ConnNew(a) \/ ConnOpen(a) \/ ConnProbe(a) \/ ConnProbeRecv(a)
    \/ ConnFlag(a) \/ ConnSaid(a) \/ ConnExcept(a) \/ ConnFailMsg(a)
    \/ DiscCheck(a) \/ DiscClose(a) \/ DiscFlag(a)
    \/ CmdCheck(a) \/ CmdSend(a) \/ CmdRecv(a) \/ RetrySend(a) \/ RetryRecv(a)

MainStep ==
    \/ ConnNew(Main) \/ ConnOpen(Main) \/ ConnProbe(Main) \/ ConnProbeRecv(Main)
    \/ ConnFlag(Main) \/ ConnSaid(Main) \/ ConnExcept(Main) \/ ConnFailMsg(Main)
    \/ DiscCheck(Main) \/ DiscClose(Main) \/ DiscFlag(Main)
    \/ StartLogWatcher \/ WatcherInit \/ WatcherSize \/ WatcherObserve
    \/ Online \/ Shutdown \/ StopWatcher \/ JoinWatcher

Request(w) ==
    \/ HandleCommand(w) \/ Respond(w)
    \/ HandleLogs(w) \/ LogsExists(w) \/ LogsRead(w)
    \/ HandleStatus(w) \/ StatusExists(w) \/ Finish(w)

\* the service: the main thread and the request threads
Next ==
    \/ MainStep
    \/ \E w \in Workers : SessionStep(w) \/ Request(w)

Spec == Init /\ [][Next]_vars

\* how the startup connect (line 479) ended: it returned True ("ok"), or the
\* statement of line 100 ("new"), of line 103 ("open") or of line 107
\* ("probe") raised the exception named
StartupEnds ==
    { <<"ok", "none">>, <<"new", "other">>, <<"open", "refused">>, <<"open", "other">>,
      <<"probe", "reset">>, <<"probe", "other">> }

\* the session and the main thread when the startup connect has ended as e
Started(e) ==
    LET h == NewHandleOf([g \in Handles |-> "unborn"])
    IN /\ rcon_connected = (e[1] = "ok")
       /\ rcon = (IF e[1] = "new" THEN 0 ELSE h)
       /\ sock = [g \in Handles |-> IF g # rcon THEN "unborn"
                                     ELSE IF e[1] = "open" THEN "new" ELSE "open"]
       /\ established = (IF e[1] = "ok" THEN h ELSE 0)
       /\ cres = [a \in Actors |-> IF a # Main THEN "none"
                                    ELSE IF e[1] = "ok" THEN "ok" ELSE "failed"]
       /\ caught = [a \in Actors |-> IF a = Main THEN e[2] ELSE "none"]
       /\ hnd = [a \in Actors |-> IF a = Main /\ e[1] \in {"ok", "probe"} THEN h ELSE 0]
       /\ nconn = [a \in Actors |-> IF a = Main THEN 1 ELSE 0]

\* the message the startup connect handed over last (line 112, 120 or 143)
StartupSaid(e) ==
    IF e[1] = "ok" THEN MSG_CONNECTED
    ELSE IF ConnectHandler(e[2]) = "refused" THEN MSG_REFUSED ELSE ConnErrorMsg(e[2])

\* the log path, from the return of the startup connect (line 480) on: the
\* main thread, the game server writing its log, the watcher
InitTail ==
    /\ pc = [a \in Actors |-> IF a = Main THEN "start_watch" ELSE "idle"]
    /\ top = [a \in Actors |-> IF a = Main THEN "main" ELSE "http"]
    /\ \E e \in StartupEnds :
        /\ Started(e)
        /\ webhook = Said(StartupSaid(e))
    /\ inCmd = [a \in Actors |-> FALSE]
    /\ cmd = [a \in Actors |-> ""]
    /\ first = [a \in Actors |-> "none"]
    /\ second = [a \in Actors |-> "none"]
    /\ sends = [a \in Actors |-> 0]
    /\ ndisc = [a \in Actors |-> 0]
    /\ result = [a \in Actors |-> NoneVal]
    /\ raised = [a \in Actors |-> FALSE]
    /\ req = [w \in Workers |-> NoReq]
    /\ resp = [w \in Workers |-> NoResp]
    /\ served = 0
    /\ lastOp = <<"none", "none">>
    /\ snap = <<FALSE, 0, [h \in Handles |-> "unborn"]>>
    /\ last_log_position = 0
    /\ observer = "none"
    /\ wpc = "idle"
    /\ current_size = 0
    /\ detected = FALSE
    /\ failed = FALSE
    /\ appends = 0
    /\ rotated = FALSE
    /\ shrunk = FALSE
    /\ history = 0
    /\ batches = NoBatch
    /\ ChatOff
    /\ fileExists \in BOOLEAN
    /\ logfile \in (IF fileExists THEN InitialLogs ELSE {""})

NextTail ==
    \/ StartLogWatcher \/ WatcherInit \/ WatcherSize \/ WatcherObserve
    \/ Online \/ Shutdown
    \/ DiscCheck(Main) \/ DiscClose(Main) \/ DiscFlag(Main)
    \/ StopWatcher \/ JoinWatcher
    \/ Writer
    \/ WatchSize \/ WatchSizeError \/ WatchRead \/ WatchForward \/ WatchReadError

SpecTail == InitTail /\ [][NextTail]_vars

\* the log when the service starts, in the specification of the serving phase
FrontLogs == { "", "[INFO] tick\n" }

\* the service while it serves (app.run, line 500): the startup connect has
\* ended, the watcher was made on an existing log and its observer was
\* started (or could not be started, line 443), and the banner was sent; the
\* request threads, the game server appending to its log, the watcher
InitFront ==
    /\ pc = [a \in Actors |-> IF a = Main THEN "serving" ELSE "idle"]
    /\ top = [a \in Actors |-> IF a = Main THEN "main" ELSE "http"]
    /\ \E e \in StartupEnds : Started(e)
    /\ webhook = Said(MSG_ONLINE)
    /\ inCmd = [a \in Actors |-> FALSE]
    /\ cmd = [a \in Actors |-> ""]
    /\ first = [a \in Actors |-> "none"]
    /\ second = [a \in Actors |-> "none"]
    /\ sends = [a \in Actors |-> 0]
    /\ ndisc = [a \in Actors |-> 0]
    /\ result = [a \in Actors |-> NoneVal]
    /\ raised = [a \in Actors |-> FALSE]
    /\ req = [w \in Workers |-> NoReq]
    /\ resp = [w \in Workers |-> NoResp]
    /\ served = 0
    /\ lastOp = <<"none", "none">>
    /\ snap = <<FALSE, 0, [h \in Handles |-> "unborn"]>>
    /\ fileExists = TRUE
    /\ logfile \in FrontLogs
    /\ last_log_position = StartPosition(Len(logfile))
    /\ history = Len(logfile)
    /\ observer \in {"running", "none"}
    /\ wpc = "idle"
    /\ current_size = 0
    /\ detected = FALSE
    /\ failed = FALSE
    /\ appends = 0
    /\ rotated = FALSE
    /\ shrunk = FALSE
    /\ batches = NoBatch
    /\ ChatOff

\* the game server only appends to its log
Appender ==
    /\ LogAppend
    /\ Silent /\ UNCHANGED <<sessionVars, pc, top, chatVars, established, callVars, httpVars, testVars, tailVars>>

\* the request thread that serves in this specification
Poller == Main + 1

NextFront ==
    \/ Appender
    \/ WatchSize \/ WatchRead \/ WatchForward \/ WatchReadError
    \/ SessionStep(Poller) \/ Request(Poller)

SpecFront == InitFront /\ [][NextFront]_vars

\* the logs endpoint while the game server writes, rotates, removes and
\* creates its log: one request thread serving GET /logs
NextLogs ==
    \/ Writer
    \/ HandleLogs(Poller) \/ LogsExists(Poller) \/ LogsRead(Poller) \/ Finish(Poller)

SpecLogs == InitFront /\ [][NextLogs]_vars

\* the request thread that runs commands while the other serves GET /status
Commander == Poller + 1

\* the status endpoint while another request thread runs commands (and their
\* recovery) and the game server writes, removes and creates its log
NextStatus ==
    \/ Writer
    \/ HandleStatus(Poller) \/ StatusExists(Poller) \/ Finish(Poller)
    \/ HandleCommand(Commander) \/ SessionStep(Commander) \/ Respond(Commander)
    \/ Finish(Commander)

SpecStatus == InitFront /\ [][NextStatus]_vars

\* the chat front end; its configuration is read once (lines 28-32).  The API
\* server is its environment and stays as it is.
ServerIdle ==
    /\ pc = [a \in Actors |-> "off"]
    /\ top = [a \in Actors |-> "off"]
    /\ rcon_connected = FALSE /\ rcon = 0 /\ established = 0
    /\ sock = [h \in Handles |-> "unborn"]
    /\ inCmd = [a \in Actors |-> FALSE]
    /\ cmd = [a \in Actors |-> ""]
    /\ hnd = [a \in Actors |-> 0]
    /\ first = [a \in Actors |-> "none"]
    /\ second = [a \in Actors |-> "none"]
    /\ cres = [a \in Actors |-> "none"]
    /\ caught = [a \in Actors |-> "none"]
    /\ sends = [a \in Actors |-> 0]
    /\ ndisc = [a \in Actors |-> 0]
    /\ nconn = [a \in Actors |-> 0]
    /\ result = [a \in Actors |-> NoneVal]
    /\ raised = [a \in Actors |-> FALSE]
    /\ req = [w \in Workers |-> NoReq]
    /\ resp = [w \in Workers |-> NoResp]
    /\ served = 0
    /\ lastOp = <<"none", "none">>
    /\ snap = <<FALSE, 0, [h \in Handles |-> "unborn"]>>
    /\ webhook = <<>>
    /\ logfile = "" /\ fileExists = FALSE
    /\ last_log_position = 0 /\ observer = "none" /\ wpc = "idle"
    /\ current_size = 0 /\ detected = FALSE /\ failed = FALSE
    /\ appends = 0 /\ rotated = FALSE /\ shrunk = FALSE /\ history = 0
    /\ batches = NoBatch

InitChat ==
    /\ ServerIdle
    /\ ADMIN_ROLE_ID \in AdminRoleSettings
    /\ ChatIdle

NextChat ==
    \/ ChatInvoke \/ RoleCheck \/ ValidateLines \/ Defer
    \/ HttpRequest \/ FollowUp \/ ChatFinish

SpecChat == InitChat /\ [][NextChat]_vars

\* the session object driven by one sequential caller
TestActor == Main + 1

InitSession ==
    /\ InitState
    /\ pc = [a \in Actors |-> IF a = TestActor THEN "t_idle" ELSE "off"]
    /\ top = [a \in Actors |-> IF a = TestActor THEN "test" ELSE "off"]
    /\ fileExists = FALSE
    /\ logfile = ""

NextSession == TestCall(TestActor) \/ TestReturn(TestActor) \/ SessionStep(TestActor)

SpecSession == InitSession /\ [][NextSession]_vars


(***************************************************************************)
(* Claims                                                                  *)
(***************************************************************************)
Range(f) == {f[i] : i \in DOMAIN f}
RecoverySteps == {"d_check", "d_close", "d_flag", "c_new", "c_open", "c_probe",
                  "c_probe_recv", "c_flag", "c_said", "c_except", "c_failmsg",
                  "retry_send", "retry_recv"}

\* a caller is between the send of a command and its response, or inside the
\* disconnect/reconnect recovery of command()
OnTransport(a) == inCmd[a] /\ pc[a] \in {"cmd_recv"} \cup RecoverySteps

\* C1: execute is serialized: at most one request thread at a time is between
\* sending a command and receiving its response, or inside the recovery.
C1_Serialized == Cardinality({w \in Workers : OnTransport(w)}) <= 1

\* C2: when the primary send of command() fails with a connection reset, the
\* call makes one disconnect and one connect; if that connect succeeds the
\* command is sent exactly once more and the call returns what the retry gave
\* (its response, or the error text of its failure); if the connect fails the
\* call returns the reconnection-failed error string; no exception leaves the call.
C2_ReconnectProperty ==
    \A w \in Workers :
        (pc[w] = "respond" /\ first[w] = "reset") =>
            /\ ~raised[w]
            /\ ndisc[w] = 1 /\ nconn[w] = 1
            /\ cres[w] \in {"ok", "failed"}
            /\ cres[w] = "ok" =>
                /\ sends[w] = 2
                /\ second[w] \in SendOutcomes
                /\ result[w] = IF second[w] = "ok" THEN Reply(cmd[w], hnd[w])
                               ELSE ErrorResult(second[w])
            /\ cres[w] = "failed" =>
                /\ sends[w] = 1
                /\ second[w] = "none"
                /\ result[w] = RECONNECT_FAILED

\* a call whose primary send was reset, whose reconnect succeeded and whose
\* retry was answered
C2_Witness ==
    \E w \in Workers :
        /\ pc[w] = "respond" /\ first[w] = "reset" /\ cres[w] = "ok"
        /\ second[w] = "ok" /\ sends[w] = 2 /\ result[w] = Reply(cmd[w], hnd[w])

\* C3: when rcon_connected is false, command(C) returns the "not connected"
\* sentinel in one step that performs no transport operation (no send, no
\* connect, no disconnect) and leaves rcon_connected and the handle unchanged.
C3_NotConnectedSentinel ==
    [][\A w \in Workers :
        (pc[w] = "cmd_check" /\ pc'[w] # "cmd_check" /\ ~rcon_connected) =>
            /\ pc'[w] = "respond"
            /\ result'[w] = NOT_CONNECTED
            /\ ~raised'[w]
            /\ sends'[w] = 0 /\ ndisc'[w] = 0 /\ nconn'[w] = 0
            /\ UNCHANGED <<rcon_connected, rcon, sock>>]_vars

\* command() has returned the sentinel, for a session that holds a handle
C3_Witness ==
    \E w \in Workers :
        /\ pc[w] = "respond" /\ result[w] = NOT_CONNECTED
        /\ ~rcon_connected /\ rcon # 0 /\ sends[w] = 0

\* C4: a request to /command, /logs or /status whose X-Secret-Token is missing
\* or wrong is answered 401 in a step that does nothing else: command() is not
\* entered, the log file is not read, and rcon_connected, the handle and the
\* log position are unchanged.
C4_UnauthorizedNoWork ==
    [][\A w \in Workers :
        (pc[w] = "idle" /\ pc'[w] # "idle" /\ req'[w].token # SECRET_TOKEN) =>
            /\ req'[w].route \in {"command", "logs", "status"}
            /\ resp'[w] = Unauthorized
            /\ pc'[w] = "replied"
            /\ ~inCmd'[w] /\ ~resp'[w].exec /\ ~resp'[w].read
            /\ UNCHANGED <<rcon_connected, rcon, sock, last_log_position>>]_vars

\* two requests answered 401: a /command without the header while the session
\* is connected, and a /logs with a wrong token while the file exists
C4_Witness ==
    \E v, w \in Workers :
        /\ pc[v] = "replied" /\ req[v].route = "command" /\ req[v].token = NoneVal
        /\ req[v].body.kind = "cmd" /\ resp[v].status = 401
        /\ pc[w] = "replied" /\ req[w].route = "logs" /\ req[w].token = "wrong"
        /\ resp[w].status = 401
        /\ rcon_connected /\ fileExists

\* C5: a read processes exactly the bytes [position, observed size), so that,
\* absent rotation, no byte is processed by two reads, also when the writer
\* appends between the size observation and the read.
C5_ExactlyOnce ==
    (batches.read /\ ~rotated) =>
        /\ batches.to = batches.size
        /\ batches.from >= batches.before

\* C6: a notification that observes a size below the position resets the
\* position to 0 before any read; the read it makes starts at byte 0 and ends
\* with the position equal to the observed size.
C6_RotationReset ==
    detected =>
        IF wpc = "sized"
        THEN last_log_position = 0
        ELSE \/ last_log_position = 0
             \/ /\ batches.read /\ batches.rotation
                /\ batches.from = 0
                /\ batches.size = current_size
                /\ last_log_position = current_size

\* a rotation to a smaller, non-empty file was detected and the new file read
C6_Witness ==
    /\ detected /\ wpc = "idle"
    /\ batches.read /\ batches.rotation /\ batches.from = 0
    /\ last_log_position = current_size /\ current_size > 0

\* the non-empty lines of a text that match a noteworthy pattern, by position
Noteworthy(ls) == {i \in 1..Len(ls) : ls[i] # "" /\ is_important_log(ls[i])}
\* the k-th smallest element of a set of positions
Kth(S, k) == CHOOSE i \in S : Cardinality({j \in S : j < i}) = k - 1

\* C7: the messages of a read are exactly its non-empty lines that match a
\* noteworthy pattern, one message per line, in file order; a "joined the
\* game" line is among them and a "tick" line is not.
C7_ForwardedLines ==
    batches.read =>
        LET ls == splitlines(batches.content, "")
            hits == Noteworthy(ls)
        IN /\ Len(batches.sent) <= Cardinality(hits)
           /\ wpc # "forward" => Len(batches.sent) = Cardinality(hits)
           /\ wpc = "forward" => Len(batches.sent) < Cardinality(hits)
           /\ \A k \in 1..Len(batches.sent) : batches.sent[k] = Wrap(ls[Kth(hits, k)])
           /\ \A i \in 1..Len(ls) :
                /\ ls[i] = "[INFO] Player1 joined the game" => i \in hits
                /\ ls[i] \in {"[INFO] tick", ""} => i \notin hits

\* a read of four lines: matching, not matching, empty, and matching the
\* pattern [ERROR] in another case and without a line end yet
C7_Witness ==
    /\ batches.read /\ wpc = "idle"
    /\ splitlines(batches.content, "") =
         <<"[INFO] Player1 joined the game", "[INFO] tick", "", "[Error] x">>
    /\ batches.sent = <<Wrap("[INFO] Player1 joined the game"), Wrap("[Error] x")>>

\* C8: disconnect() always leaves rcon_connected false and raises nothing,
\* also when closing the transport raises.
C8_DisconnectClears ==
    (pc[TestActor] = "t_ret" /\ lastOp[2] = "disconnect") =>
        /\ ~rcon_connected
        /\ ~raised[TestActor]

\* C9: disconnect() called twice in a row raises nothing, leaves
\* rcon_connected false, and the second call leaves the session as the first
\* left it.
C9_DisconnectIdempotent ==
    (pc[TestActor] = "t_ret" /\ lastOp = <<"disconnect", "disconnect">>) =>
        /\ ~raised[TestActor]
        /\ ~rcon_connected
        /\ <<rcon_connected, rcon, sock>> = snap

\* C10: an authorized POST /command that carries a command is answered 200
\* with success true and the text command() returned, whatever the session
\* state and the transport outcomes; no exception leaves command().
C10_CommandAlwaysSucceeds ==
    \A w \in Workers :
        /\ (top[w] = "http" /\ pc[w] = "respond") => ~raised[w]
        /\ (pc[w] = "replied" /\ req[w].route = "command" /\ req[w].token = SECRET_TOKEN
              /\ req[w].body.kind = "cmd") =>
                /\ resp[w].status = 200
                /\ resp[w].success
                /\ resp[w].text = IF result[w] = "" THEN NO_RESPONSE ELSE result[w]
                /\ result[w] \in {NOT_CONNECTED, RECONNECT_FAILED}
                                 \cup {ErrorResult(e) : e \in {"reset", "other"}}
                                 \cup {Reply(req[w].body.command, h) : h \in Handles}

\* a command whose primary send was reset and whose reconnect failed, answered
\* 200 with the error text as the result
C10_Witness ==
    \E w \in Workers :
        /\ pc[w] = "replied" /\ req[w].route = "command"
        /\ first[w] = "reset" /\ cres[w] = "failed"
        /\ resp[w].status = 200 /\ resp[w].success /\ resp[w].text = RECONNECT_FAILED

\* an authorized GET /logs whose lines argument is an integer has been answered
LogsAnswered(w) ==
    /\ pc[w] = "replied" /\ req[w].route = "logs" /\ req[w].token = SECRET_TOKEN
    /\ IsIntLiteral(req[w].lines)

\* the text get_recent_logs gives for n lines when nothing goes wrong: the
\* last n lines of the file as text mode reads it, all of them when it has
\* fewer
LastN(n) ==
    LET ls == readlines(UniversalNewlines(logfile), "")
        m == IF n < Len(ls) THEN n ELSE Len(ls)
    IN Join(SubSeq(ls, Len(ls) - m + 1, Len(ls)))

\* C11, whatever the state of the log file: an authorized GET /logs with
\* integer N is answered 400 without reading the file when N < 1 or N > 100,
\* and when 1 <= N <= 100 the answer is 200 and carries exactly the last N
\* lines of the log file as it is when the answer is made (all its lines
\* when it has fewer; no line when there is no file).
C11_LogsAlwaysLines ==
    [][\A w \in Workers :
        (pc[w] # "replied" /\ LogsAnswered(w)') =>
            LET n == ParseInt(req'[w].lines)
            IN IF n < 1 \/ n > 100
               THEN resp'[w].status = 400 /\ ~resp'[w].success /\ ~resp'[w].read
               ELSE /\ resp'[w].status = 200 /\ resp'[w].success
                    /\ resp'[w].text = LastN(n)]_vars

\* C11, case by case on the log file: an authorized GET /logs with integer N
\* is answered 400 without reading the file when N < 1 or N > 100
\* (get_recent_logs is not called); when 1 <= N <= 100 the answer is 200, and
\* when the log file exists and is read without error its text is exactly
\* the last N lines of the file as it is when it is read (all its lines when
\* it has fewer), while the game server writes the file.  When the file does
\* not exist the text is 'Log file not found: <path>', and when opening or
\* reading it fails the text is 'Error reading logs: <error>'.
C11_LogsLastLines ==
    /\ [](\A w \in Workers :
            LogsAnswered(w) =>
                LET n == ParseInt(req[w].lines)
                IN IF n < 1 \/ n > 100
                   THEN resp[w].status = 400 /\ ~resp[w].success /\ ~resp[w].read
                   ELSE resp[w].status = 200 /\ resp[w].success)
    /\ [](\A w \in Workers :
            pc[w] \in {"logs_exists", "logs_read"} =>
                (LinesOf(req[w].lines) >= 1 /\ LinesOf(req[w].lines) <= 100))
    /\ [][\A w \in Workers :
            (pc[w] = "logs_exists" /\ pc'[w] = "replied") =>
                /\ ~fileExists /\ ~resp'[w].read
                /\ resp'[w].text = "Log file not found: " \o LOG_FILE_PATH]_vars
    /\ [][\A w \in Workers :
            (pc[w] = "logs_exists" /\ pc'[w] = "logs_read") => fileExists]_vars
    /\ [][\A w \in Workers :
            (pc[w] = "logs_read" /\ pc'[w] = "replied") =>
                LET n == LinesOf(req[w].lines)
                    ls == readlines(UniversalNewlines(logfile), "")
                    m == IF n < Len(ls) THEN n ELSE Len(ls)
                IN IF resp'[w].read
                   THEN /\ fileExists
                        /\ resp'[w].text = Join(SubSeq(ls, Len(ls) - m + 1, Len(ls)))
                        /\ m = Len(ls) => resp'[w].text = UniversalNewlines(logfile)
                   ELSE /\ \E o \in {"decode", "isdir", "enoent"} :
                             /\ resp'[w].text = "Error reading logs: " \o ReadErrText(o)
                             /\ o = "enoent" <=> ~fileExists]_vars

\* a request for the last two lines (lines=%0B2%20) of a log of four lines
\* answered with them, after a request for 101 lines was refused
C11_Witness ==
    /\ LogsAnswered(Poller) /\ req[Poller].lines = VT \o "2 " /\ resp[Poller].read
    /\ Len(readlines(UniversalNewlines(logfile), "")) = 4
    /\ resp[Poller].status = 200
    /\ resp[Poller].text = "[INFO] tick" \o VT \o "\n[Error] x"
    /\ served = MaxRequests

\* an authorized POST /command whose body carries no command: no JSON object,
\* no "command" key, or an empty command string
NoCommandGiven(w) ==
    /\ top[w] = "http" /\ req[w].route = "command" /\ req[w].token = SECRET_TOKEN
    /\ (req[w].body.kind # "cmd" \/ req[w].body.command = "")

\* C12: execute accepts only a non-empty command string: an authorized POST
\* /command without one never enters command(), sends nothing on the
\* transport, and is answered 400.
C12_CommandRequired ==
    \A w \in Workers :
        NoCommandGiven(w) =>
            /\ ~inCmd[w] /\ sends[w] = 0
            /\ pc[w] = "replied" => (resp[w].status = 400 /\ ~resp[w].exec)

\* C13: an authorized GET /status is answered 200 with a snapshot: the pair
\* it returns is rcon_connected and whether the log file exists, both as they
\* are when the answer is made; serving the request leaves rcon_connected,
\* the handle, the transports and the log position unchanged, does not enter
\* command() and sends nothing.
C13_StatusSnapshot ==
    /\ [][\A w \in Workers :
            (pc[w] = "status_exists" /\ pc'[w] = "replied") =>
                /\ resp'[w].status = 200 /\ resp'[w].success
                /\ resp'[w].flags = <<rcon_connected, fileExists>>]_vars
    /\ [][\A w \in Workers :
            (pc'[w] # pc[w] /\ pc'[w] # "idle" /\ req'[w].route = "status") =>
                /\ ~inCmd'[w] /\ sends' = sends
                /\ UNCHANGED <<rcon_connected, rcon, sock, last_log_position>>]_vars

\* C14: the watcher starts at the size the file has at startup, and no read
\* scans a byte that was in the file at startup: every read begins at or after
\* the end of what is left of the startup content, and no message of a read
\* comes from it.
C14_HistoryNeverScanned ==
    /\ (pc[Main] = "online" /\ fileExists /\ appends = 0) =>
            last_log_position = Len(logfile)
    /\ batches.read => batches.from >= history

StartSteps == {"start_watch", "w_init", "w_size", "w_observe"}

\* C15: at its start the watcher either finds no file, reports it to the
\* notifier and is never started (it stays idle for the rest of the run: no
\* read, no message of a log line, position 0, also when the file appears
\* later), or finds the file, takes its size as the position and runs; in both
\* cases the main thread goes on to app.run, which serves the requests.
C15_WatcherStart ==
    /\ [](observer = "none" =>
            /\ ~batches.read /\ wpc = "idle"
            /\ pc[Main] \notin StartSteps => last_log_position = 0)
    /\ [][(pc[Main] \in StartSteps /\ webhook' = <<MSG_NO_FILE>>) =>
            /\ pc'[Main] = "online" /\ observer' = "none"
            /\ last_log_position' = 0]_vars
    /\ [][(observer = "none" /\ observer' # "none") =>
            /\ pc[Main] \in StartSteps /\ pc'[Main] = "online"
            /\ observer' = "running"
            /\ (fileExists /\ ~shrunk) => last_log_position = Len(logfile)]_vars
    /\ [][observer # "none" => observer' # "none"]_vars
    /\ [][pc[Main] \in StartSteps \/ observer' = observer \/ observer' = "stopped"]_vars

\* C16: when the teardown of __main__ has run (app.run has ended, disconnect()
\* was called, the observer was stopped and joined), rcon_connected is false,
\* the watcher is not running and is not in the middle of a read.
C16_TeardownComplete ==
    pc[Main] = "stopped" =>
        /\ ~rcon_connected
        /\ observer # "running" /\ wpc = "idle"

\* C17: in every state, rcon_connected implies that the session holds a
\* handle, that this handle is the one of the most recent connect() that
\* succeeded, and that it has not been closed since.
C17_SessionInvariant ==
    rcon_connected => (rcon # 0 /\ rcon = established /\ sock[rcon] = "open")

\* C18: one call of command() makes at most one disconnect(), at most one
\* connect() (only after its disconnect) and at most two sends of its command
\* (the second only after its connect succeeded); when the retry fails, also
\* with a connection reset, the call has returned the error text.
C18_BoundedRecovery ==
    \A w \in Workers :
        /\ ndisc[w] <= 1 /\ nconn[w] <= ndisc[w] /\ sends[w] <= 2
        /\ sends[w] = 2 => (nconn[w] = 1 /\ cres[w] = "ok" /\ first[w] = "reset")
        /\ second[w] \in {"reset", "other"} =>
              /\ ~inCmd[w] /\ pc[w] \in {"respond", "replied"}
              /\ result[w] = ErrorResult(second[w]) /\ ~raised[w]

\* a call whose primary send and whose retry were both reset: one disconnect,
\* one connect, two sends, and the call has returned
C18_Witness ==
    \E w \in Workers :
        /\ first[w] = "reset" /\ second[w] = "reset" /\ cres[w] = "ok"
        /\ ndisc[w] = 1 /\ nconn[w] = 1 /\ sends[w] = 2
        /\ pc[w] = "respond" /\ result[w] = ErrorResult("reset")

\* C19: when connect() has returned False, rcon_connected is false and the
\* session does not hold an MCRcon object created by that call: its handle is
\* the one it held when the call began.
C19_NoPartialHandle ==
    (pc[TestActor] = "t_ret" /\ lastOp[2] = "connect" /\ cres[TestActor] = "failed") =>
        /\ ~rcon_connected
        /\ rcon = snap[2]

\* C20: connect() sets rcon_connected to true only after the object it
\* created has been opened and has answered the probe (line 110, after lines
\* 100-107); when connect() returns True the session is connected on that new,
\* open object, and when it returns False (also when the open succeeded and
\* the probe failed) rcon_connected is false.
C20_ConnectedOnlyAfterProbe ==
    /\ [](pc[TestActor] \in {"c_flag", "c_said"} =>
            (rcon # snap[2] /\ sock[rcon] = "open" /\ hnd[TestActor] = rcon))
    /\ []((pc[TestActor] = "t_ret" /\ lastOp[2] = "connect") =>
            IF cres[TestActor] = "ok"
            THEN /\ rcon_connected /\ rcon # snap[2] /\ sock[rcon] = "open"
                 /\ established = rcon
            ELSE cres[TestActor] = "failed" /\ ~rcon_connected)
    /\ [][(rcon_connected' /\ ~rcon_connected) \/ established' # established =>
            /\ pc[TestActor] = "c_flag" /\ pc'[TestActor] = "c_said"
            /\ sock[rcon] = "open" /\ rcon_connected' /\ established' = rcon]_vars
    /\ [][(pc[TestActor] = "c_said" /\ pc'[TestActor] # "c_said") =>
            /\ cres'[TestActor] = "ok" /\ rcon_connected'
            /\ webhook' = <<MSG_CONNECTED>>]_vars

\* a connect() made while connected whose open succeeded and whose probe
\* failed: it returned False, the flag is false, the new object is open
C20_Witness ==
    /\ pc[TestActor] = "t_ret" /\ lastOp[2] = "connect" /\ cres[TestActor] = "failed"
    /\ snap[1] /\ ~rcon_connected /\ rcon # snap[2] /\ sock[rcon] = "open"

\* C21: an I/O error in a change notification (getsize, open or read raising)
\* is caught.  The step that ends in the except clause leaves the position
\* where it is, hands no message to the notifier and leaves the observer and
\* the record of the last read as they were; a notification that goes on to
\* the read never has a higher position than before it; and the notification
\* after a failed one starts from the position the failed one left (from 0
\* when the file is by then shorter than that position), which is where its
\* read begins.
C21_ReadErrorCaught ==
    /\ [][~failed /\ failed' =>
            /\ last_log_position' = last_log_position
            /\ webhook' = <<>>
            /\ observer' = observer /\ observer \in {"running", "stopped"}
            /\ batches' = batches
            /\ wpc' = "idle"]_vars
    /\ [][wpc = "idle" /\ wpc' = "sized" => last_log_position' <= last_log_position]_vars
    /\ [][failed /\ ~failed' =>
            last_log_position' = (IF Len(logfile) < last_log_position
                                  THEN 0 ELSE last_log_position)]_vars
    /\ [][wpc = "sized" /\ ~failed' /\ wpc' # "sized" =>
            batches'.read /\ batches'.from = last_log_position]_vars

\* a read failed after an earlier read succeeded: the position is still inside
\* the file and the content after it is still to be read
C21_Witness ==
    /\ failed /\ fileExists /\ batches.read
    /\ last_log_position > 0
    /\ last_log_position < Len(logfile)

\* C22: the position is a natural number, and it is at most the size of the
\* file whenever the file exists and was not truncated, replaced, removed or
\* created anew since its size was last read; a notification that finds the
\* position above the size of the file sets it to 0, and the read of that
\* notification starts at 0.
C22_CursorInvariant ==
    /\ [](last_log_position \in Nat)
    /\ [](fileExists /\ ~shrunk => last_log_position <= Len(logfile))
    /\ [][~shrunk' /\ fileExists /\ last_log_position > Len(logfile) =>
            last_log_position' = 0 /\ detected']_vars
    /\ [](batches.read /\ batches.rotation => batches.from = 0)

\* the file shrank below the position, a notification has reset the position
\* and read the file, and the file has grown since
C22_Witness ==
    /\ ~shrunk /\ rotated /\ fileExists /\ wpc = "idle"
    /\ batches.read /\ batches.rotation
    /\ last_log_position > 0
    /\ last_log_position < Len(logfile)

\* C23: while the service serves, last_log_position changes only in a step of
\* the watcher's change-notification handling; a step of a request thread
\* (command, logs or status) leaves it and the rest of the watcher's state as
\* they are; and the text of an answer to GET /logs that read the file is
\* taken from the end of the whole file, wherever the position is: it is a
\* suffix of the file as
\* text mode reads it, and the whole file when the file has at most as many
\* lines as were asked for.
C23_CursorSingleWriter ==
    /\ [][last_log_position' # last_log_position =>
            /\ observer = "running"
            /\ (wpc = "sized" \/ (wpc = "idle" /\ detected'))
            /\ <<pc, req, resp, served, callVars, sessionVars>>' =
               <<pc, req, resp, served, callVars, sessionVars>>]_vars
    /\ [][<<pc, req, resp, served, callVars, sessionVars>>' #
          <<pc, req, resp, served, callVars, sessionVars>> => tailVars' = tailVars]_vars
    /\ [][\A w \in Workers :
            (pc[w] = "logs_read" /\ pc'[w] = "replied" /\ resp'[w].read) =>
                LET n == LinesOf(req[w].lines)
                    whole == UniversalNewlines(logfile)
                    text == resp'[w].text
                IN /\ resp'[w].status = 200
                   /\ Len(text) <= Len(whole)
                   /\ text = SubSeq(whole, Len(whole) - Len(text) + 1, Len(whole))
                   /\ Len(readlines(whole, "")) <= n => text = whole]_vars

\* GET /logs answered with the whole file, lines the watcher has read and
\* lines it has not read yet alike: the position is inside the file
C23_Witness ==
    \E w \in Workers :
        /\ pc[w] = "replied" /\ req[w].route = "logs" /\ resp[w].status = 200
        /\ resp[w].read
        /\ appends = MaxAppends
        /\ batches.read /\ wpc = "idle"
        /\ last_log_position > 0 /\ last_log_position < Len(logfile)
        /\ resp[w].text = UniversalNewlines(logfile)

\* C24: after a failed startup connect the connection is retried on command
\* execution: a POST /command that reached MinecraftRCON.command after the
\* startup connect had failed has made a connect attempt, or has sent its
\* command on a connection that an earlier command had made.
C24_RetryOnCommand ==
    \A w \in Workers :
        (/\ cres[Main] = "failed"
         /\ pc[w] = "replied" /\ req[w].route = "command" /\ resp[w].exec) =>
            nconn[w] > 0 \/ sends[w] > 0

\* C25: a command() whose primary send raised an exception other than
\* ConnectionResetError returns "Error: " followed by the exception's text;
\* it has sent once and has called neither disconnect() nor connect(), no
\* exception leaves it, and rcon_connected (true), self.rcon and the state of
\* every MCRcon object are as they were when it was called.
C25_OtherErrorNoRecovery ==
    (/\ pc[TestActor] = "t_ret" /\ lastOp[2] = "command"
     /\ first[TestActor] \notin {"none", "ok", "reset"}) =>
        /\ result[TestActor] = "Error: timed out"
        /\ ~raised[TestActor]
        /\ sends[TestActor] = 1 /\ second[TestActor] = "none"
        /\ ndisc[TestActor] = 0 /\ nconn[TestActor] = 0 /\ cres[TestActor] = "none"
        /\ rcon_connected
        /\ <<rcon_connected, rcon, sock>> = snap

\* a command on an established session whose primary send failed with another
\* error has returned
C25_Witness ==
    /\ pc[TestActor] = "t_ret" /\ lastOp[2] = "command"
    /\ first[TestActor] = "other"
    /\ rcon_connected /\ rcon = established /\ sock[rcon] = "open"
    /\ result[TestActor] = ErrorResult("other")

\* C26: at most one transport is open at any time: every MCRcon object whose
\* socket is open is the one self.rcon refers to.
C26_SingleTransport ==
    /\ \A h \in Handles : sock[h] = "open" => h = rcon
    /\ Cardinality({h \in Handles : sock[h] = "open"}) <= 1

\* C27: in the chat front end, a member who invokes /mc or /logs without
\* having the configured admin role is sent the refusal, alone and ephemeral,
\* and the handler returns: the response is not deferred and no HTTP request
\* is made for the invocation.  When ADMIN_ROLE_ID is not set this holds for
\* every member, whatever roles the member has.
C27_AdminOnly ==
    LET lacksRole == \/ ADMIN_ROLE_ID = NoneVal
                     \/ ADMIN_ROLE_ID \notin interaction.roles
    IN (interaction.name \in {"mc", "logs"} /\ lacksRole) =>
          /\ posted = <<>> /\ api = NoOutcome /\ ~deferred
          /\ ipc \in {"check", "done"}
          /\ ipc = "done" => sent = <<Message(MSG_NEED_ADMIN, TRUE)>>
          /\ ipc = "check" => sent = <<>>

\* the admin role is 7; a member holding only role 9 has invoked /mc and was
\* refused
C27_Witness ==
    /\ ipc = "done" /\ interaction.name = "mc"
    /\ ADMIN_ROLE_ID = "7" /\ interaction.roles = {"9"}
    /\ sent = <<Message(MSG_NEED_ADMIN, TRUE)>> /\ posted = <<>>
====
